---- MODULE Spec2Model ----
(***************************************************************************)
(* LivreMele Debrouilleur: the ingestion pipeline (utils/fileUtils.ts),    *)
(* the drop zone and the application state (DropZone.tsx, App.tsx) and the *)
(* spread layout (components/BookReader.tsx).                              *)
(*                                                                         *)
(* Strings are sequences of one-character strings, so that prefix, suffix, *)
(* case and URL-decoding operations are computed and not assumed.          *)
(***************************************************************************)
EXTENDS Integers, Sequences, FiniteSets, TLC

VARIABLES
    \* ---- App.tsx state (useState hooks) ----
    pages,          \* ProcessedPage[] held by the presentation layer
    spreadIndex,
    hasCover,
    useSpacer,
    isLoading,
    \* ---- BookReader.tsx: the last value computed by the displayedPages memo ----
    view,
    \* ---- DropZone.tsx / processFiles: the ingestion in flight ----
    pc,             \* position of the handler + processFiles coroutine
    entryPoint,     \* "drop" | "input" | "none": which handler started it
    items,          \* the DataTransferItemList / FileList handed to processFiles
    stack,          \* activation records of traverseFileTree (innermost last)
    allFiles,       \* processFiles: let allFiles
    svgFiles,       \* processFiles: const svgFiles
    assetFiles,     \* processFiles: const assetFiles
    pending,        \* asset reads of the Promise.all fan-out not settled yet
    assetMap,       \* Map<string,string> exact-case
    assetMapLower,  \* Map<string,string> lowercase
    docIdx,         \* position of the for..of loop over svgFiles (1-based)
    processedPages, \* processFiles: const processedPages
    returned,       \* handlers: const pages = await processFiles(...)
    \* ---- observations of the environment (what the user and the host saw) ----
    alerts,         \* number of alert() dialogs shown
    before,         \* App state when the ingestion in flight was started
    fatal,          \* the fatal read error the host raised, "none" if none
    assetFailed,    \* assets whose readFileAsDataURL rejected
    writes,         \* how often each key of each map was set by the ingestion in flight
    \* ---- the host's blob URL store: URL.createObjectURL / revokeObjectURL ----
    objectURLs,     \* the live object URLs, each with the text of its blob
    \* ---- reference resolution (processAttribute), one attribute at a time ----
    el,             \* the element under rewrite: its attribute, as authored and now
    \* ---- one document through the loop body ----
    doc             \* the document under transformation, and what came out

appVars    == <<pages, spreadIndex, hasCover, useSpacer, isLoading>>
ingestVars == <<pc, entryPoint, items, stack, allFiles, svgFiles, assetFiles,
                pending, assetMap, assetMapLower, docIdx, processedPages, returned>>
obsVars    == <<alerts, before, fatal, assetFailed, writes>>
vars       == <<appVars, view, objectURLs, ingestVars, obsVars, el, doc>>

-----------------------------------------------------------------------------
(* Bounds of the model *)

MaxPages == 5       \* page counts 0..MaxPages in the layout specification
MaxDepth == 2       \* a dropped folder is wrapped in 0..MaxDepth further folders
MaxAssets == 3      \* a registry holds up to MaxAssets assets in the lookup specification

-----------------------------------------------------------------------------
(* Characters and strings *)

UpperCase == <<"A","B","C","D","E","F","G","H","I","J","K","L","M",
               "N","O","P","Q","R","S","T","U","V","W","X","Y","Z">>
LowerCase == <<"a","b","c","d","e","f","g","h","i","j","k","l","m",
               "n","o","p","q","r","s","t","u","v","w","x","y","z">>
Digits    == <<"0","1","2","3","4","5","6","7","8","9">>

IndexIn(c, s) == IF \E i \in 1..Len(s) : s[i] = c
                 THEN CHOOSE i \in 1..Len(s) : s[i] = c
                 ELSE 0

\* String.prototype.toLowerCase, per character and per string
ToLowerChar(c) == IF IndexIn(c, UpperCase) > 0 THEN LowerCase[IndexIn(c, UpperCase)] ELSE c
ToLowerCase(s) == [i \in 1..Len(s) |-> ToLowerChar(s[i])]

\* String.prototype.startsWith / endsWith
StartsWith(s, p) == Len(p) <= Len(s) /\ SubSeq(s, 1, Len(p)) = p
EndsWith(s, p)   == Len(p) <= Len(s) /\ SubSeq(s, Len(s) - Len(p) + 1, Len(s)) = p

-----------------------------------------------------------------------------
(* BookReader.tsx: displayedPages, and App.tsx: totalSpreads *)

\* JavaScript null in a slot
Null == [null |-> TRUE]

\* pages[i] of a JavaScript array, guarded as in the return statement
PageAt(ps, i) == IF i >= 0 /\ i < Len(ps) THEN ps[i + 1] ELSE Null

\* Math.ceil(n / 2) for an integer n >= 0
CeilHalf(n) == (n + 1) \div 2

\* (the content spreads, were the unaligned flow to start at page 0)
ContentSpreadFromZero(ps, si, us) ==
    LET c == si - 1 IN
    IF us
    THEN LET r == 1 + c * 2
             l == r - 1
         IN [left |-> IF l = 0 THEN Null ELSE PageAt(ps, l),
             right |-> PageAt(ps, r),
             isCoverView |-> FALSE,
             leftIsSpacer |-> (l = 0)]
    ELSE LET l == c * 2
             r == l + 1
         IN [left |-> PageAt(ps, l),
             right |-> PageAt(ps, r),
             isCoverView |-> FALSE,
             leftIsSpacer |-> FALSE]

\* The content spreads of the cover layouts (hasCover, spreadIndex > 0)
ContentSpread(ps, si, us) ==
    LET c == si - 1 IN      \* contentSpreadIndex
    IF us
    THEN LET r == 1 + c * 2
             l == r - 1
         IN [left |-> IF l = 0 THEN Null ELSE PageAt(ps, l),
             right |-> PageAt(ps, r),
             isCoverView |-> FALSE,
             leftIsSpacer |-> (l = 0)]
    ELSE LET l == 1 + c * 2
             r == l + 1
         IN [left |-> PageAt(ps, l),
             right |-> PageAt(ps, r),
             isCoverView |-> FALSE,
             leftIsSpacer |-> FALSE]

\* The spreads of the layouts without a cover
PlainSpread(ps, si, us) ==
    IF us
    THEN LET r == si * 2
             l == r - 1
         IN [left |-> PageAt(ps, l),
             right |-> PageAt(ps, r),
             isCoverView |-> FALSE,
             leftIsSpacer |-> (l < 0)]
    ELSE LET l == si * 2
             r == l + 1
         IN [left |-> PageAt(ps, l),
             right |-> PageAt(ps, r),
             isCoverView |-> FALSE,
             leftIsSpacer |-> FALSE]

\* The memo's value as destructured on line 89: for an empty page list the
\* object has no isCoverView and no leftIsSpacer, which read as undefined and
\* are falsy wherever the component uses them.
displayedPages(ps, si, hc, us) ==
    IF Len(ps) = 0
    THEN [left |-> Null, right |-> Null, isCoverView |-> FALSE, leftIsSpacer |-> FALSE]
    ELSE IF hc /\ si = 0
    THEN [left |-> Null, right |-> ps[1], isCoverView |-> TRUE, leftIsSpacer |-> FALSE]
    ELSE IF hc
    THEN ContentSpread(ps, si, us)
    ELSE PlainSpread(ps, si, us)

\* (the count, were the halves rounded down)
totalSpreadsFloor(n, hc, us) ==
    IF n = 0 THEN 0
    ELSE IF hc
    THEN LET contentPages == n - 1 IN
         IF us THEN 1 + ((contentPages + 1) \div 2) ELSE 1 + (contentPages \div 2)
    ELSE LET contentPages == n IN
         IF us THEN (contentPages + 1) \div 2 ELSE contentPages \div 2

totalSpreads(n, hc, us) ==
    IF n = 0 THEN 0
    ELSE IF hc
    THEN LET contentPages == n - 1 IN
         IF us THEN 1 + CeilHalf(contentPages + 1) ELSE 1 + CeilHalf(contentPages)
    ELSE LET contentPages == n IN
         IF us THEN CeilHalf(contentPages + 1) ELSE CeilHalf(contentPages)

-----------------------------------------------------------------------------
(* The files of the host: File objects and FileSystemEntry trees *)

Str_page == <<"p","a","g","e">>
Str_svg  == <<".","s","v","g">>
Str_logo == <<"l","o","g","o">>
Str_png  == <<".","p","n","g">>

Name_page1  == Str_page \o <<"1">> \o Str_svg          \* page1.svg
Name_page2  == Str_page \o <<"2">> \o Str_svg          \* page2.svg
Name_page10 == Str_page \o <<"1","0">> \o Str_svg      \* page10.svg
Name_Page3  == <<"P","a","g","e","3",".","S","V","G">> \* Page3.SVG
Name_cover  == <<"c","o","v","e","r">>                 \* cover (typed image/svg+xml)
Name_hidden == <<".","x">> \o Str_svg                  \* .x.svg
Name_DS     == <<".","D","S">>                         \* .DS
Name_logo   == Str_logo \o Str_png                     \* logo.png
Name_Logo   == <<"L","o","g","o",".","P","N","G">>     \* Logo.PNG
Name_font   == <<"f",".","t","t","f">>                 \* f.ttf

MimeSvg == "image/svg+xml"

File(id, name, type) == [id |-> id, name |-> name, type |-> type]

F_page1  == File(1, Name_page1, MimeSvg)
F_page2  == File(2, Name_page2, MimeSvg)
F_page10 == File(3, Name_page10, MimeSvg)
F_Page3  == File(4, Name_Page3, "")
F_cover  == File(5, Name_cover, MimeSvg)
F_hidden == File(6, Name_hidden, MimeSvg)
F_DS     == File(7, Name_DS, "")
F_logo   == File(8, Name_logo, "image/png")
F_Logo   == File(9, Name_Logo, "image/png")
F_font   == File(10, Name_font, "")
F_page1b == File(11, Name_page1, MimeSvg)   \* a second page1.svg, in another folder

\* FileSystemFileEntry and FileSystemDirectoryEntry (types.ts); the children of
\* a directory are held in the order its reader delivers them.
FileEntry(f) == [isFile |-> TRUE, isDirectory |-> FALSE, file |-> f]
DirEntry(cs) == [isFile |-> FALSE, isDirectory |-> TRUE, children |-> cs]

\* A DataTransferItem: webkitGetAsEntry() gives `entry` (Null when the host has
\* none), getAsFile() gives `file`.
EntryItem(e) == [entry |-> e, kind |-> "file", file |-> Null]
PlainItem(f) == [entry |-> Null, kind |-> "file", file |-> f]

RECURSIVE Nest(_, _)
Nest(e, d) == IF d = 0 THEN e ELSE DirEntry(<<Nest(e, d - 1)>>)

Tree_book == DirEntry(<<FileEntry(F_page10),
                        DirEntry(<<FileEntry(F_page2), FileEntry(F_logo), FileEntry(F_DS)>>),
                        FileEntry(F_page1)>>)
Tree_mixed == DirEntry(<<DirEntry(<<>>),
                         DirEntry(<<FileEntry(F_Logo), FileEntry(F_page1b)>>),
                         FileEntry(F_hidden)>>)

\* The transfers a drop can carry
Drops ==
    {<<EntryItem(Nest(Tree_book, d))>> : d \in 0..MaxDepth}
    \cup {<<PlainItem(F_cover), EntryItem(FileEntry(F_Page3)), EntryItem(Tree_mixed),
            EntryItem(FileEntry(F_logo))>>,
          <<EntryItem(DirEntry(<<FileEntry(F_font)>>))>>}

\* The selections the file input can carry (handleFileInput ignores an empty one)
FileLists ==
    {<<F_page2, F_Page3, F_logo, F_hidden, F_Logo, F_font>>,
     <<F_page10, F_page1>>,
     <<F_font>>,
     <<>>}

-----------------------------------------------------------------------------
(* processFiles: filter, classification, registry, sort *)

\* line 143: allFiles.filter(f => !f.name.startsWith('.'))
NotHidden(f) == ~StartsWith(f.name, <<".">>)

\* lines 146-147: the two filters over the same predicate
\* (the same test without toLowerCase)
IsSvgCaseSensitive(f) == f.type = MimeSvg \/ EndsWith(f.name, Str_svg)

IsSvg(f) == f.type = MimeSvg \/ EndsWith(ToLowerCase(f.name), Str_svg)

IsAsset(f) == f.type # MimeSvg /\ ~EndsWith(ToLowerCase(f.name), Str_svg)

\* readFileAsDataURL: the data URL of a file's bytes, "data:" and one payload
\* per file (the file's number stands for its encoded bytes)
Str_data == <<"d","a","t","a",":">>
DataURL(f) == Str_data \o (IF f.id < 10 THEN <<Digits[f.id + 1]>>
                           ELSE <<Digits[(f.id \div 10) + 1], Digits[(f.id % 10) + 1]>>)

\* Map.prototype.set / has
MapSet(m, k, v) == [x \in (DOMAIN m) \cup {k} |-> IF x = k THEN v ELSE m[x]]
MapHas(m, k)    == k \in DOMAIN m
\* Map.prototype.get: undefined on a miss, written as the empty string (both
\* are falsy, and the code only tests the result for truthiness)
MapGet(m, k)    == IF k \in DOMAIN m THEN m[k] ELSE <<>>
Truthy(x)       == Len(x) > 0
EmptyMap        == << >>

\* Collation of one character under localeCompare's root collation: space and
\* punctuation, then digits, then letters; sensitivity 'base' ignores case.
CollationOrder == <<" ", "_", "-", ".", "%">> \o Digits \o LowerCase
Rank(c) == IndexIn(ToLowerChar(c), CollationOrder)
IsDigit(c) == IndexIn(c, Digits) > 0

RECURSIVE DigitRunEnd(_, _)
\* last position of the run of digits starting at i
DigitRunEnd(s, i) == IF i < Len(s) /\ IsDigit(s[i + 1]) THEN DigitRunEnd(s, i + 1) ELSE i

RECURSIVE NumVal(_, _, _)
\* value of the digits s[i..j]
NumVal(s, i, j) == IF j < i THEN 0 ELSE NumVal(s, i, j - 1) * 10 + (IndexIn(s[j], Digits) - 1)

Sign(n) == IF n < 0 THEN -1 ELSE IF n > 0 THEN 1 ELSE 0

RECURSIVE CompareFrom(_, _, _, _, _)
CompareFrom(a, b, i, j, numeric) ==
    IF i > Len(a) /\ j > Len(b) THEN 0
    ELSE IF i > Len(a) THEN -1
    ELSE IF j > Len(b) THEN 1
    ELSE IF numeric /\ IsDigit(a[i]) /\ IsDigit(b[j])
    THEN LET ie == DigitRunEnd(a, i)
             je == DigitRunEnd(b, j)
             d  == Sign(NumVal(a, i, ie) - NumVal(b, j, je))
         IN IF d # 0 THEN d ELSE CompareFrom(a, b, ie + 1, je + 1, numeric)
    ELSE LET d == Sign(Rank(a[i]) - Rank(b[j]))
         IN IF d # 0 THEN d ELSE CompareFrom(a, b, i + 1, j + 1, numeric)

\* (the comparison without the numeric option)
localeComparePlain(a, b) == CompareFrom(a, b, 1, 1, FALSE)

\* line 350: a.name.localeCompare(b.name, undefined, {numeric: true, sensitivity: 'base'})
localeCompare(a, b) == CompareFrom(a, b, 1, 1, TRUE)

\* Array.prototype.sort is stable: x goes after every element not greater than it
InsertPage(sorted, x) ==
    LET after == {k \in 1..Len(sorted) : localeCompare(sorted[k].name, x.name) > 0}
        at    == IF after = {} THEN Len(sorted) + 1
                 ELSE CHOOSE k \in after : \A m \in after : k <= m
    IN SubSeq(sorted, 1, at - 1) \o <<x>> \o SubSeq(sorted, at, Len(sorted))

RECURSIVE SortPrefix(_, _)
SortPrefix(ps, n) == IF n = 0 THEN <<>> ELSE InsertPage(SortPrefix(ps, n - 1), ps[n])

SortPages(ps) == SortPrefix(ps, Len(ps))

\* line 353: processedPages.map((page, index) => ({...page, index}))
AssignIndices(ps) == [i \in 1..Len(ps) |-> [ps[i] EXCEPT !.index = i - 1]]

\* line 333: URL.createObjectURL gives a URL that no live URL equals; the model
\* names it after the document's file
Str_blob == <<"b","l","o","b",":">>
BlobURL(f) == Str_blob \o (IF f.id < 10 THEN <<Digits[f.id + 1]>>
                           ELSE <<Digits[(f.id \div 10) + 1], Digits[(f.id % 10) + 1]>>)

\* lines 339-346: the page pushed for a document (index is a placeholder)
NewPage(f, dim) == [id |-> f.id, name |-> f.name, url |-> BlobURL(f), index |-> 0,
                    width |-> dim.width, height |-> dim.height]

-----------------------------------------------------------------------------
(* fileUtils.ts: getFilenameFromPath and processAttribute *)

Str_http  == <<"h","t","t","p",":","/","/">>
Str_https == <<"h","t","t","p","s",":","/","/">>

\* the part after the last / or \ (path.split(/[/\\]/), last element)
RECURSIVE LastPart(_)
LastPart(s) ==
    IF \E i \in 1..Len(s) : s[i] \in {"/", "\\"}
    THEN LastPart(SubSeq(s, 1 + (CHOOSE i \in 1..Len(s) : s[i] \in {"/", "\\"}), Len(s)))
    ELSE s

\* the part before the first ? or # (filename.split(/[?#]/)[0])
BeforeQuery(s) ==
    IF \E i \in 1..Len(s) : s[i] \in {"?", "#"}
    THEN SubSeq(s, 1, (CHOOSE i \in 1..Len(s) :
                          s[i] \in {"?", "#"} /\ \A j \in 1..(i - 1) : s[j] \notin {"?", "#"}) - 1)
    ELSE s

\* The escapes decodeURIComponent meets in this model: %20, %25 and %2E decode
\* to a character; a % followed by anything else is malformed.
Escapes == [x \in {<<"2","0">>, <<"2","5">>, <<"2","E">>} |->
               IF x = <<"2","0">> THEN " " ELSE IF x = <<"2","5">> THEN "%" ELSE "."]

RECURSIVE decodeURIComponent(_)
\* [ok |-> TRUE, val |-> decoded], or [ok |-> FALSE] where it throws URIError
decodeURIComponent(s) ==
    IF Len(s) = 0 THEN [ok |-> TRUE, val |-> <<>>]
    ELSE IF s[1] # "%"
    THEN LET r == decodeURIComponent(Tail(s)) IN
         IF r.ok THEN [ok |-> TRUE, val |-> <<s[1]>> \o r.val] ELSE r
    ELSE IF Len(s) >= 3 /\ SubSeq(s, 2, 3) \in DOMAIN Escapes
    THEN LET r == decodeURIComponent(SubSeq(s, 4, Len(s))) IN
         IF r.ok THEN [ok |-> TRUE, val |-> <<Escapes[SubSeq(s, 2, 3)]>> \o r.val] ELSE r
    ELSE [ok |-> FALSE, val |-> <<>>]

getFilenameFromPath(path) ==
    IF Len(path) = 0 THEN <<>>
    ELSE IF StartsWith(path, Str_data) \/ StartsWith(path, Str_http) \/ StartsWith(path, Str_https)
    THEN <<>>
    ELSE LET filename == BeforeQuery(LastPart(path))
             decoded  == decodeURIComponent(filename)
         IN IF decoded.ok THEN decoded.val ELSE filename

\* (the lookup, were the lower-case map consulted before the exact one)
LookupLowerFirst(exact, lower, filename) ==
    LET a1 == MapGet(lower, ToLowerCase(filename))
        a2 == IF Truthy(a1) THEN a1 ELSE MapGet(exact, filename)
        decoded == decodeURIComponent(filename)
    IN IF Truthy(a2) THEN a2
       ELSE IF decoded.ok
       THEN LET b1 == MapGet(exact, decoded.val)
            IN IF Truthy(b1) THEN b1 ELSE MapGet(lower, ToLowerCase(decoded.val))
       ELSE a2

\* lines 213-220: the asset the registry gives for a file name, falsy if none
Lookup(exact, lower, filename) ==
    LET a1 == MapGet(exact, filename)
        a2 == IF Truthy(a1) THEN a1 ELSE MapGet(lower, ToLowerCase(filename))
        decoded == decodeURIComponent(filename)
    IN IF Truthy(a2) THEN a2
       ELSE IF decoded.ok
       THEN LET b1 == MapGet(exact, decoded.val)
            IN IF Truthy(b1) THEN b1 ELSE MapGet(lower, ToLowerCase(decoded.val))
       ELSE a2

\* lines 205-232: the value the attribute holds after processAttribute
processAttribute(exact, lower, val) ==
    IF ~Truthy(val) THEN val
    ELSE LET filename == getFilenameFromPath(val) IN
         IF ~Truthy(filename) THEN val
         ELSE LET assetUrl == Lookup(exact, lower, filename) IN
              IF Truthy(assetUrl) THEN assetUrl ELSE val

-----------------------------------------------------------------------------
(* fileUtils.ts: the secondary pass over CSS url(...) occurrences *)

Str_url == <<"u","r","l","(">>

\* the quotes a url(...) may carry, and a declaration that refers to v
Quotes == {<<>>, <<"'">>, <<"\"">>}
StyleOf(q, v) == <<"f","i","l","l",":">> \o Str_url \o q \o v \o q \o <<")">> \o <<";">>

\* positions j >= from where `closing` occurs in t with no line break before it
\* (the `.` of the pattern matches no line terminator)
ClosingAt(t, from, closing) ==
    {j \in from..(Len(t) - Len(closing) + 1) :
        /\ SubSeq(t, j, j + Len(closing) - 1) = closing
        /\ \A k \in from..(j - 1) : t[k] # "\n"}

\* the match of (['"]?)(.*?)\1\) on the text t that follows "url(": the quote
\* is taken when it is there and a matching close follows; otherwise the
\* pattern backtracks to no quote; the lazy group stops at the first close
MatchUrl(t) ==
    LET quoted == Len(t) > 0 /\ t[1] \in {"'", "\""}
        q      == IF quoted THEN <<t[1]>> ELSE <<>>
        withQ  == IF quoted THEN ClosingAt(t, 2, q \o <<")">>) ELSE {}
        noQ    == ClosingAt(t, 1, <<")">>)
    IN IF withQ # {}
       THEN LET j == CHOOSE x \in withQ : \A y \in withQ : x <= y
            IN [ok |-> TRUE, quote |-> q, url |-> SubSeq(t, 2, j - 1),
                rest |-> SubSeq(t, j + 2, Len(t))]
       ELSE IF noQ # {}
       THEN LET j == CHOOSE x \in noQ : \A y \in noQ : x <= y
            IN [ok |-> TRUE, quote |-> <<>>, url |-> SubSeq(t, 1, j - 1),
                rest |-> SubSeq(t, j + 1, Len(t))]
       ELSE [ok |-> FALSE, quote |-> <<>>, url |-> <<>>, rest |-> t]

\* line 324: assetMap.get(filename) || assetMapLower.get(filename.toLowerCase())
UrlLookup(exact, lower, filename) ==
    LET a1 == MapGet(exact, filename)
    IN IF Truthy(a1) THEN a1 ELSE MapGet(lower, ToLowerCase(filename))

\* lines 321-330: the replacement callback, given the quote and the url matched
replaceUrl(exact, lower, quote, url) ==
    LET match    == Str_url \o quote \o url \o quote \o <<")">>
        filename == getFilenameFromPath(url)
    IN IF Truthy(filename)
       THEN LET assetUrl == UrlLookup(exact, lower, filename)
            IN IF Truthy(assetUrl)
               THEN Str_url \o quote \o assetUrl \o quote \o <<")">>
               ELSE match
       ELSE match

\* line 321: content.replace(/url\((['"]?)(.*?)\1\)/g, ...) over a text
RECURSIVE ReplaceUrls(_, _, _)
ReplaceUrls(exact, lower, s) ==
    IF Len(s) = 0 THEN <<>>
    ELSE IF StartsWith(s, Str_url) /\ MatchUrl(SubSeq(s, 5, Len(s))).ok
    THEN LET m == MatchUrl(SubSeq(s, 5, Len(s)))
         IN replaceUrl(exact, lower, m.quote, m.url) \o ReplaceUrls(exact, lower, m.rest)
    ELSE <<s[1]>> \o ReplaceUrls(exact, lower, Tail(s))

-----------------------------------------------------------------------------
(* fileUtils.ts: the document as the DOMParser gives it *)

\* A text node holds `text`; an element holds its tag, its attributes by
\* qualified name and its child nodes in document order. The strings of the
\* model's documents hold none of & < > and no quote inside an attribute, so
\* that a string reads the same in the file, in the DOM and in the text the
\* XMLSerializer writes.
Tag_svg     == <<"s","v","g">>
Tag_g       == <<"g">>
Tag_image   == <<"i","m","a","g","e">>
Tag_text    == <<"t","e","x","t">>
Tag_style   == <<"s","t","y","l","e">>
Tag_defs    == <<"d","e","f","s">>
Tag_filter  == <<"f","i","l","t","e","r">>
Tag_feGaussianBlur == <<"f","e","G","a","u","s","s","i","a","n","B","l","u","r">>

Text(t) == [text |-> t]
Element(tag, attrs, kids) == [tag |-> tag, attrs |-> attrs, kids |-> kids]
IsText(n) == "text" \in DOMAIN n

\* Element.getAttribute: null when the attribute is absent, written as the
\* empty string (the code tests the value for truthiness, or takes `|| ''`)
getAttribute(e, name) == IF name \in DOMAIN e.attrs THEN e.attrs[name] ELSE <<>>
setAttribute(e, name, v) == [e EXCEPT !.attrs = MapSet(@, name, v)]

\* the characters the \s class matches, among those of the model
WhiteSpace == {" ", "\t", "\n"}

-----------------------------------------------------------------------------
(* fileUtils.ts: dimension extraction (lines 172-197, 335-337) *)

\* A JavaScript number: NaN, or a value. The numbers of the model's documents
\* are integers.
NaN    == [nan |-> TRUE, val |-> 0]
Num(n) == [nan |-> FALSE, val |-> n]
\* !x for a number: 0 and NaN are falsy
Falsy(x) == x.nan \/ x.val = 0

\* an optional minus sign and then digits only
IsIntegerLiteral(s) ==
    LET d == IF Len(s) > 0 /\ s[1] = "-" THEN Tail(s) ELSE s
    IN Len(d) > 0 /\ \A i \in 1..Len(d) : IsDigit(d[i])

IntegerValue(s) ==
    IF s[1] = "-" THEN 0 - NumVal(s, 2, Len(s)) ELSE NumVal(s, 1, Len(s))

\* Number(token) for a token without white space: NaN unless all of it is a number
Number(s) == IF IsIntegerLiteral(s) THEN Num(IntegerValue(s)) ELSE NaN

RECURSIVE SkipWhiteSpace(_)
SkipWhiteSpace(s) == IF Len(s) > 0 /\ s[1] \in WhiteSpace THEN SkipWhiteSpace(Tail(s)) ELSE s

\* parseFloat: leading white space is skipped, the longest numeric prefix is
\* read, whatever follows it is ignored; NaN when there is no such prefix
parseFloat(s) ==
    LET t      == SkipWhiteSpace(s)
        signed == Len(t) > 0 /\ t[1] = "-"
        from   == IF signed THEN 2 ELSE 1
    IN IF from <= Len(t) /\ IsDigit(t[from])
       THEN Num(IntegerValue(SubSeq(t, 1, DigitRunEnd(t, from))))
       ELSE NaN

\* viewBox.split(/[\s,]+/).filter(Boolean): the maximal runs of characters
\* that are neither white space nor a comma
RECURSIVE SplitViewBox(_, _)
SplitViewBox(s, token) ==
    IF Len(s) = 0 THEN (IF Len(token) > 0 THEN <<token>> ELSE <<>>)
    ELSE IF s[1] \in WhiteSpace \cup {","}
    THEN (IF Len(token) > 0 THEN <<token>> ELSE <<>>) \o SplitViewBox(Tail(s), <<>>)
    ELSE SplitViewBox(Tail(s), Append(token, s[1]))

\* lines 183-197: width and height after the extraction from the root element
extractDimensions(svgElement) ==
    LET viewBox == getAttribute(svgElement, "viewBox")
        tokens  == SplitViewBox(viewBox, <<>>)
        parts   == [i \in 1..Len(tokens) |-> Number(tokens[i])]
        w1      == IF Truthy(viewBox) /\ Len(parts) = 4 THEN parts[3] ELSE Num(0)
        h1      == IF Truthy(viewBox) /\ Len(parts) = 4 THEN parts[4] ELSE Num(0)
        wAttr   == getAttribute(svgElement, "width")
        hAttr   == getAttribute(svgElement, "height")
    IN IF Falsy(w1) \/ Falsy(h1)
       THEN [width  |-> IF Truthy(wAttr) THEN parseFloat(wAttr) ELSE w1,
             height |-> IF Truthy(hAttr) THEN parseFloat(hAttr) ELSE h1]
       ELSE [width |-> w1, height |-> h1]

\* lines 172-173: let width = 0; let height = 0
NoDimensions == [width |-> Num(0), height |-> Num(0)]

DefaultWidth  == 595
DefaultHeight == 842

\* lines 335-337: the defaults, and the numbers the page is emitted with
defaultDimensions(dim) ==
    [width  |-> IF Falsy(dim.width) THEN DefaultWidth ELSE dim.width.val,
     height |-> IF Falsy(dim.height) THEN DefaultHeight ELSE dim.height.val]

-----------------------------------------------------------------------------
(* fileUtils.ts: resource rewriting and redaction on the DOM (lines 199-311) *)

\* lines 234-237: the four processAttribute calls on one element. In a
\* well-formed document xlink:href is bound to the XLink namespace, so that
\* the namespaced call and the call by qualified name meet the same attribute.
RewrittenAttrs(exact, lower, e) ==
    [a \in DOMAIN e.attrs |->
        IF a \in {"href", "src"} THEN processAttribute(exact, lower, e.attrs[a])
        ELSE IF a = "xlink:href"
        THEN processAttribute(exact, lower, processAttribute(exact, lower, e.attrs[a]))
        ELSE e.attrs[a]]

\* lines 200-238: the loop over doc.getElementsByTagName('*')
RECURSIVE processResources(_, _, _)
processResources(exact, lower, n) ==
    IF IsText(n) THEN n
    ELSE [tag   |-> n.tag,
          attrs |-> RewrittenAttrs(exact, lower, n),
          kids  |-> [i \in 1..Len(n.kids) |-> processResources(exact, lower, n.kids[i])]]

\* String.prototype.trim
RECURSIVE TrimEnd(_)
TrimEnd(s) == IF Len(s) > 0 /\ s[Len(s)] \in WhiteSpace THEN TrimEnd(SubSeq(s, 1, Len(s) - 1)) ELSE s
Trim(s) == TrimEnd(SkipWhiteSpace(s))

\* tagsStr.split(','): the pieces between commas (as a set: the code only asks
\* whether some piece qualifies)
SplitTags(s) ==
    {SubSeq(s, x[1], x[2]) : x \in
        {y \in (1..(Len(s) + 1)) \X (0..Len(s)) :
            /\ y[2] >= y[1] - 1
            /\ (y[1] = 1 \/ s[y[1] - 1] = ",")
            /\ (y[2] = Len(s) \/ s[y[2] + 1] = ",")
            /\ \A k \in y[1]..y[2] : s[k] # ","}}

Str_redact == <<"r","e","d","a","c","t">>

\* lines 246-248 and 286-289: the element is selected by [data-tags] and some
\* trimmed, lower-cased tag starts with 'redact'
IsRedactTagged(e) ==
    /\ "data-tags" \in DOMAIN e.attrs
    /\ \E t \in SplitTags(getAttribute(e, "data-tags")) :
          StartsWith(ToLowerCase(Trim(t)), Str_redact)

\* lines 241-249: needsFilter
RECURSIVE needsFilter(_)
needsFilter(n) ==
    /\ ~IsText(n)
    /\ \/ IsRedactTagged(n)
       \/ \E i \in 1..Len(n.kids) : needsFilter(n.kids[i])

Str_filterPrefix == <<"r","e","d","a","c","t","-","b","l","u","r","-">>
Str_blurStyle == <<";"," ","f","i","l","t","e","r",":"," ","b","l","u","r","(",
                   "1","5","0","p","x",")",";">>

\* line 253: Math.random().toString(36).substr(2, 9), as the host may draw it
RandomSuffixes == {<<"k","7">>, <<"q","2">>}

\* lines 267-282: the filter definition
FilterElement(filterId) ==
    Element(Tag_filter,
            [a \in {"id", "x", "y", "width", "height"} |->
                IF a = "id" THEN filterId
                ELSE IF a \in {"x", "y"} THEN <<"-","5","0","%">>
                ELSE <<"2","0","0","%">>],
            <<Element(Tag_feGaussianBlur,
                      [a \in {"in", "stdDeviation", "edgeMode"} |->
                          IF a = "in" THEN <<"S","o","u","r","c","e","G","r","a","p","h","i","c">>
                          ELSE IF a = "stdDeviation" THEN <<"1","5","0">>
                          ELSE <<"d","u","p","l","i","c","a","t","e">>],
                      <<>>)>>)

\* doc.querySelector('defs') and line 283: the filter becomes the last child
\* of the first defs element in document order; `done` tells whether there
\* was one
RECURSIVE AppendToFirstDefs(_, _)
RECURSIVE AppendToFirstDefsAmong(_, _)
AppendToFirstDefs(n, filter) ==
    IF IsText(n) THEN [done |-> FALSE, node |-> n]
    ELSE IF n.tag = Tag_defs THEN [done |-> TRUE, node |-> [n EXCEPT !.kids = Append(@, filter)]]
    ELSE LET r == AppendToFirstDefsAmong(n.kids, filter)
         IN [done |-> r.done, node |-> [n EXCEPT !.kids = r.kids]]
AppendToFirstDefsAmong(ks, filter) ==
    IF Len(ks) = 0 THEN [done |-> FALSE, kids |-> <<>>]
    ELSE LET h == AppendToFirstDefs(Head(ks), filter) IN
         IF h.done THEN [done |-> TRUE, kids |-> <<h.node>> \o Tail(ks)]
         ELSE LET t == AppendToFirstDefsAmong(Tail(ks), filter)
              IN [done |-> t.done, kids |-> <<Head(ks)>> \o t.kids]

\* (the container, were a new one always made the first child of the root)
ensureDefsAlwaysNew(root, filter) ==
    [root EXCEPT !.kids = <<Element(Tag_defs, EmptyMap, <<filter>>)>> \o @]

\* lines 256-264 and 283: create or get <defs>, then append the filter
ensureDefs(root, filter) ==
    LET r == AppendToFirstDefs(root, filter)
    IN IF r.done THEN r.node
       ELSE [root EXCEPT !.kids = <<Element(Tag_defs, EmptyMap, <<filter>>)>> \o @]

\* U+25AE, the black vertical rectangle
Glyph == "U+25AE"

\* line 101: textContent.replace(/[^\s]/g, '\u25AE')
redactText(t) == [i \in 1..Len(t) |-> IF t[i] \in WhiteSpace THEN t[i] ELSE Glyph]

RECURSIVE Repeat(_, _)
Repeat(s, k) == IF k = 0 THEN <<>> ELSE s \o Repeat(s, k - 1)

\* lines 298-305, applied to one image by each of the `times` tagged elements
\* whose image list holds it
blurImage(img, filterId, times) ==
    IF times = 0 THEN img
    ELSE [img EXCEPT !.attrs =
             MapSet(MapSet(@, "filter", Str_url \o <<"#">> \o filterId \o <<")">>),
                    "style", getAttribute(img, "style") \o Repeat(Str_blurStyle, times))]

\* lines 285-310 and redactTextNodes: `lists` counts the tagged ancestors that
\* are not images (each lists the descendant images), `inside` tells whether
\* some ancestor is tagged (its redactTextNodes reaches every text node below)
RECURSIVE redacted(_, _, _, _)
redacted(n, filterId, lists, inside) ==
    IF IsText(n) THEN (IF inside /\ Truthy(n.text) THEN Text(redactText(n.text)) ELSE n)
    ELSE LET tagged == IsRedactTagged(n)
             isImg  == ToLowerCase(n.tag) = Tag_image
             own    == IF tagged /\ isImg THEN 1 ELSE 0
             on     == blurImage(n, filterId, IF n.tag = Tag_image THEN lists + own ELSE own)
         IN [on EXCEPT !.kids =
                [i \in 1..Len(n.kids) |->
                    redacted(n.kids[i], filterId,
                             IF tagged /\ ~isImg THEN lists + 1 ELSE lists,
                             inside \/ tagged)]]

\* lines 240-311: the redaction of a parsed document
processRedactions(root, rnd) ==
    IF needsFilter(root)
    THEN LET filterId == Str_filterPrefix \o rnd
         IN redacted(ensureDefs(root, FilterElement(filterId)), filterId, 0, FALSE)
    ELSE root

-----------------------------------------------------------------------------
(* fileUtils.ts: one document through the loop body (lines 171-346) *)

\* A document file's text, as the DOMParser takes it: `parse` is "ok" when
\* the text is well-formed, "parsererror" when the parser returns a document
\* holding a parsererror node, "throws" when the structured phase raises an
\* exception; `root` is the tree the text spells out.
Document(parse, root) == [parse |-> parse, root |-> root]

\* lines 319-330 over the text of a tree: every attribute value and every
\* text node is a stretch of that text
RECURSIVE replaceUrlsIn(_, _, _)
replaceUrlsIn(exact, lower, n) ==
    IF IsText(n) THEN Text(ReplaceUrls(exact, lower, n.text))
    ELSE [tag   |-> n.tag,
          attrs |-> [a \in DOMAIN n.attrs |-> ReplaceUrls(exact, lower, n.attrs[a])],
          kids  |-> [i \in 1..Len(n.kids) |-> replaceUrlsIn(exact, lower, n.kids[i])]]

\* (the loop body, were the stylesheet pass inside the structured phase)
transformDocumentUrlPassInsideTry(d, exact, lower, rnd) ==
    LET structured == d.parse = "ok"
        dim == IF structured THEN extractDimensions(d.root) ELSE NoDimensions
    IN [content |-> IF structured
                    THEN replaceUrlsIn(exact, lower,
                            processRedactions(processResources(exact, lower, d.root), rnd))
                    ELSE d.root,
        dim |-> defaultDimensions(dim)]

\* lines 172-337: the text the blob is made of, and the page's dimensions
transformDocument(d, exact, lower, rnd) ==
    LET structured == d.parse = "ok"
        dom == IF structured
               THEN processRedactions(processResources(exact, lower, d.root), rnd)
               ELSE d.root
        dim == IF structured THEN extractDimensions(d.root) ELSE NoDimensions
    IN [content |-> replaceUrlsIn(exact, lower, dom),
        dim |-> defaultDimensions(dim)]

-----------------------------------------------------------------------------
(* The texts of the host's document files *)

Str_redactA == Str_redact \o <<"-","a">>                     \* redact-a
Ref_imgLogo == <<"i","m","g","/">> \o Name_Logo              \* img/Logo.PNG
ViewBox_100x200 == <<"0"," ","0"," ","1","0","0"," ","2","0","0">>
Text_HiYou == <<"H","i"," ","y","o","u">>

\* page1.svg: a redacted group holding an image and a text, next to an image
Doc_page1 ==
    Document("ok",
        Element(Tag_svg, "viewBox" :> ViewBox_100x200,
            <<Element(Tag_g, "data-tags" :> Str_redactA,
                  <<Element(Tag_image, "href" :> Name_logo, <<>>),
                    Element(Tag_text, EmptyMap, <<Text(Text_HiYou)>>)>>),
              Element(Tag_image, "xlink:href" :> Ref_imgLogo, <<>>)>>))

\* page2.svg: not well-formed; it spells out an image reference, a
\* stylesheet and a redaction tag
Doc_page2 ==
    Document("parsererror",
        Element(Tag_svg, ("width" :> <<"3","0","0">>) @@ ("height" :> <<"4","0","0">>),
            <<Element(Tag_image, "href" :> Name_logo, <<>>),
              Element(Tag_style, EmptyMap, <<Text(StyleOf(<<"'">>, Name_logo))>>),
              Element(Tag_g, "data-tags" :> Str_redact, <<Text(Text_HiYou)>>)>>))

\* page10.svg: width and height attributes, a style attribute with a url(...)
Doc_page10 ==
    Document("ok",
        Element(Tag_svg, ("width" :> <<"3","0","0">>) @@ ("height" :> <<"4","0","0","p","x">>),
            <<Element(Tag_g, "style" :> StyleOf(<<>>, Name_logo), <<>>)>>))

\* Page3.SVG: the structured phase raises an exception
Doc_Page3 ==
    Document("throws",
        Element(Tag_svg, "viewBox" :> ViewBox_100x200,
            <<Element(Tag_image, "href" :> Name_Logo, <<>>),
              Element(Tag_g, "style" :> StyleOf(<<"'">>, Ref_imgLogo), <<>>)>>))

\* cover: no dimensions at all
Doc_cover ==
    Document("ok", Element(Tag_svg, EmptyMap, <<Element(Tag_image, "src" :> Name_logo, <<>>)>>))

Doc_plain ==
    Document("ok", Element(Tag_svg, "viewBox" :> ViewBox_100x200, <<>>))

\* file.text() of each document file
Content(f) ==
    IF f.id = 1 THEN Doc_page1
    ELSE IF f.id = 2 THEN Doc_page2
    ELSE IF f.id = 3 THEN Doc_page10
    ELSE IF f.id = 4 THEN Doc_Page3
    ELSE IF f.id = 5 THEN Doc_cover
    ELSE Doc_plain

-----------------------------------------------------------------------------
(* App.tsx: the handlers of the application state *)

Min(a, b) == IF a < b THEN a ELSE b
Max(a, b) == IF a > b THEN a ELSE b

\* The state of the five hooks, as a tuple
AppState == <<pages, spreadIndex, hasCover, useSpacer, isLoading>>

KeepApp(app) ==
    /\ pages' = app[1]
    /\ spreadIndex' = app[2]
    /\ hasCover' = app[3]
    /\ useSpacer' = app[4]
    /\ isLoading' = app[5]

\* onLoadingStart={() => setIsLoading(true)}
onLoadingStart(app) == [app EXCEPT ![5] = TRUE]

handleFilesLoaded(newPages) ==
    /\ pages' = newPages
    /\ spreadIndex' = 0
    /\ isLoading' = FALSE
    /\ hasCover' = TRUE
    /\ useSpacer' = TRUE

\* The drop zone is mounted only by the branch !isLoading && pages.length === 0
DropZoneMounted == ~isLoading /\ Len(pages) = 0

\* Controls returns null when !hasPages
ControlsMounted == Len(pages) > 0

-----------------------------------------------------------------------------
(* fileUtils.ts: traverseFileTree and readAllEntries, one step per await *)

Frame(entries, rest, listing, files) ==
    [entries |-> entries, rest |-> rest, listing |-> listing, i |-> 1, files |-> files]

Top(stk) == stk[Len(stk)]
SetTop(stk, fr) == [stk EXCEPT ![Len(stk)] = fr]

\* The batches a reader may deliver next: any non-empty prefix of what is left,
\* and the empty batch exactly when nothing is left.
BatchSizes(rest) == IF Len(rest) = 0 THEN {0} ELSE 1..Len(rest)

\* (readAllEntries, were it to trust the first batch to hold everything)
readAllEntriesFirstBatchOnly(fr, k) ==
    [fr EXCEPT !.entries = @ \o SubSeq(fr.rest, 1, k),
               !.rest = SubSeq(fr.rest, k + 1, Len(fr.rest)),
               !.listing = FALSE]

\* readAllEntries, the loop of lines 16-21 resumed with the batch just read
readAllEntries(fr, k) ==
    IF k > 0
    THEN [fr EXCEPT !.entries = @ \o SubSeq(fr.rest, 1, k),
                    !.rest = SubSeq(fr.rest, k + 1, Len(fr.rest))]
    ELSE [fr EXCEPT !.listing = FALSE]

\* traverseFileTree from the point where an awaited value arrived up to the
\* next await: the for..of loop of lines 47-50 (and of lines 133-135 for the
\* bottom frame) calls into the next child, or returns its files to the caller.
RECURSIVE RunToAwait(_)
RunToAwait(stk) ==
    LET top == Top(stk) IN
    IF top.listing THEN stk
    ELSE IF top.i <= Len(top.entries)
    THEN IF top.entries[top.i].isFile
         THEN stk
         ELSE Append(stk, Frame(<<>>, top.entries[top.i].children, TRUE, <<>>))
    ELSE IF Len(stk) > 1
    THEN LET caller == stk[Len(stk) - 1] IN
         RunToAwait(Append(SubSeq(stk, 1, Len(stk) - 2),
                           [caller EXCEPT !.files = @ \o top.files, !.i = @ + 1]))
    ELSE stk

TraversalFinished(stk) ==
    Len(stk) = 1 /\ ~Top(stk).listing /\ Top(stk).i > Len(Top(stk).entries)

-----------------------------------------------------------------------------
(* fileUtils.ts / DropZone.tsx: processFiles and its two callers *)

\* processFiles returns (lines 349-353) and the handler publishes (lines 32, 44)
Return(pp) ==
    /\ returned' = AssignIndices(SortPages(pp))
    /\ handleFilesLoaded(returned')
    /\ pc' = "done"

\* processFiles rejects; the catch blocks of handleDrop and handleFileInput
Reject ==
    /\ pc' = "rejected"
    /\ alerts' = IF entryPoint = "drop" THEN alerts + 1 ELSE alerts
    /\ stack' = <<>>
    /\ UNCHANGED <<appVars, returned>>

\* (the loop, were each page handed to the presentation layer as it is made)
DocLoopPublishing(svgs, pp, k, app) ==
    /\ processedPages' = pp
    /\ docIdx' = k
    /\ IF k > Len(svgs)
       THEN Return(pp)
       ELSE pc' = "docs" /\ KeepApp([app EXCEPT ![1] = pp, ![5] = FALSE]) /\ returned' = <<>>

\* the for..of loop of line 170 at document k: the next await, or the return
DocLoop(svgs, pp, k, app) ==
    /\ processedPages' = pp
    /\ docIdx' = k
    /\ IF k > Len(svgs)
       THEN Return(pp)
       ELSE pc' = "docs" /\ KeepApp(app) /\ returned' = <<>>

\* lines 143-163: filter, classify and start every asset read
FanOut(files, app) ==
    LET all    == SelectSeq(files, NotHidden)
        svgs   == SelectSeq(all, IsSvg)
        assets == SelectSeq(all, IsAsset)
    IN /\ allFiles' = all
       /\ svgFiles' = svgs
       /\ assetFiles' = assets
       /\ pending' = 1..Len(assets)
       /\ IF Len(assets) = 0
          THEN DocLoop(svgs, <<>>, 1, app)
          ELSE /\ pc' = "assets"
               /\ processedPages' = <<>>
               /\ docIdx' = 1
               /\ KeepApp(app)
               /\ returned' = <<>>

\* the traversal continues from `stk` to its next await, or hands over
Resume(stk, app) ==
    LET s2 == RunToAwait(stk) IN
    IF TraversalFinished(s2)
    THEN /\ stack' = <<>>
         /\ FanOut(Top(s2).files, app)
    ELSE /\ stack' = s2
         /\ pc' = "traverse"
         /\ KeepApp(app)
         /\ returned' = <<>>
         /\ UNCHANGED <<allFiles, svgFiles, assetFiles, pending, docIdx, processedPages>>

Snapshot == [app |-> AppState, alerts |-> alerts]

\* Map.prototype.set as the host counts it: one more write of key k
NoWrites == [exact |-> EmptyMap, lower |-> EmptyMap]
Counted(m, k) == MapSet(m, k, IF k \in DOMAIN m THEN m[k] + 1 ELSE 1)

\* what both handlers set up before processFiles runs
Begin(how, its) ==
    /\ DropZoneMounted
    /\ entryPoint' = how
    /\ items' = its
    /\ before' = Snapshot
    /\ fatal' = "none"
    /\ assetFailed' = {}
    /\ assetMap' = EmptyMap
    /\ assetMapLower' = EmptyMap
    /\ writes' = NoWrites
    /\ UNCHANGED <<alerts, view, objectURLs, el, doc>>

\* lines 122-132: entries with a FileSystemEntry, and plain files without
EntriesOf(its) ==
    LET withEntry == SelectSeq(its, LAMBDA it : it.entry # Null)
    IN [k \in 1..Len(withEntry) |-> withEntry[k].entry]
PlainFilesOf(its) ==
    LET plain == SelectSeq(its, LAMBDA it : it.entry = Null /\ it.kind = "file" /\ it.file # Null)
    IN [k \in 1..Len(plain) |-> plain[k].file]

handleDrop(its) ==
    /\ Begin("drop", its)
    /\ Resume(<<Frame(EntriesOf(its), <<>>, FALSE, PlainFilesOf(its))>>, onLoadingStart(AppState))

handleFileInput(list) ==
    /\ Len(list) > 0
    /\ Begin("input", list)
    /\ stack' = <<>>
    /\ FanOut(list, onLoadingStart(AppState))

\* dirReader.readEntries calls its success callback with the next batch
ReadEntriesOk ==
    /\ pc = "traverse" /\ Top(stack).listing
    /\ \E k \in BatchSizes(Top(stack).rest) :
          Resume(SetTop(stack, readAllEntries(Top(stack), k)), AppState)
    /\ UNCHANGED <<entryPoint, items, assetMap, assetMapLower, obsVars, view, objectURLs, el, doc>>

\* dirReader.readEntries calls its error callback
ReadEntriesErr ==
    /\ pc = "traverse" /\ Top(stack).listing
    /\ fatal' = "listing"
    /\ Reject
    /\ UNCHANGED <<entryPoint, items, allFiles, svgFiles, assetFiles, pending, assetMap,
                   assetMapLower, docIdx, processedPages, before, assetFailed, writes, view, objectURLs, el, doc>>

\* fileEntry.file calls its success callback (lines 34-38)
FileOk ==
    /\ pc = "traverse" /\ ~Top(stack).listing
    /\ LET top == Top(stack) IN
       Resume(SetTop(stack, [top EXCEPT !.files = Append(@, top.entries[top.i].file),
                                        !.i = @ + 1]), AppState)
    /\ UNCHANGED <<entryPoint, items, assetMap, assetMapLower, obsVars, view, objectURLs, el, doc>>

\* fileEntry.file calls its error callback (line 39)
FileErr ==
    /\ pc = "traverse" /\ ~Top(stack).listing
    /\ fatal' = "entry"
    /\ Reject
    /\ UNCHANGED <<entryPoint, items, allFiles, svgFiles, assetFiles, pending, assetMap,
                   assetMapLower, docIdx, processedPages, before, assetFailed, writes, view, objectURLs, el, doc>>

\* (the join, were it Promise.race: the loop starts with the first asset settled)
AfterAssetRace(left) ==
    /\ pending' = left
    /\ DocLoop(svgFiles, <<>>, 1, AppState)

\* Promise.all settles with the last asset; the document loop follows
AfterAsset(left) ==
    /\ pending' = left
    /\ IF left = {}
       THEN DocLoop(svgFiles, <<>>, 1, AppState)
       ELSE UNCHANGED <<pc, docIdx, processedPages, returned, appVars>>

\* lines 157-159: one readFileAsDataURL resolves
AssetReadOk(i) ==
    /\ pc = "assets" /\ i \in pending
    /\ assetMap' = MapSet(assetMap, assetFiles[i].name, DataURL(assetFiles[i]))
    /\ assetMapLower' = MapSet(assetMapLower, ToLowerCase(assetFiles[i].name), DataURL(assetFiles[i]))
    /\ writes' = [exact |-> Counted(writes.exact, assetFiles[i].name),
                  lower |-> Counted(writes.lower, ToLowerCase(assetFiles[i].name))]
    /\ AfterAsset(pending \ {i})
    /\ UNCHANGED <<entryPoint, items, stack, allFiles, svgFiles, assetFiles,
                   alerts, before, fatal, assetFailed, view, objectURLs, el, doc>>

\* (the rejection, were it to escape the map callback and reject Promise.all)
AssetRejectedAborts(i) ==
    /\ Reject
    /\ UNCHANGED <<pending, docIdx, processedPages>>

\* lines 160-162: one readFileAsDataURL rejects, the catch logs it
AssetRejected(i) ==
    /\ AfterAsset(pending \ {i})
    /\ UNCHANGED <<alerts, stack>>

AssetReadErr(i) ==
    /\ pc = "assets" /\ i \in pending
    /\ assetFailed' = assetFailed \cup {i}
    /\ AssetRejected(i)
    /\ UNCHANGED <<entryPoint, items, allFiles, svgFiles, assetFiles, assetMap,
                   assetMapLower, before, fatal, writes, view, objectURLs, el, doc>>

\* line 171 resolves: the document is transformed, its blob gets an object
\* URL and its page is pushed (lines 172-346)
TextOk ==
    /\ pc = "docs"
    /\ \E rnd \in RandomSuffixes :
          LET file == svgFiles[docIdx]
              out  == transformDocument(Content(file), assetMap, assetMapLower, rnd)
          IN /\ objectURLs' = MapSet(objectURLs, BlobURL(file), out.content)
             /\ DocLoop(svgFiles, Append(processedPages, NewPage(file, out.dim)),
                        docIdx + 1, AppState)
    /\ UNCHANGED <<entryPoint, items, stack, allFiles, svgFiles, assetFiles, pending,
                   assetMap, assetMapLower, obsVars, view, el, doc>>

\* (the rejection, were the loop to log it and go on with the next document)
TextRejectedSkipsDocument ==
    /\ DocLoop(svgFiles, processedPages, docIdx + 1, AppState)
    /\ UNCHANGED <<alerts, stack>>

\* line 171 rejects: nothing catches it inside processFiles
TextRejected ==
    /\ Reject
    /\ UNCHANGED <<docIdx, processedPages>>

TextErr ==
    /\ pc = "docs"
    /\ fatal' = "docread"
    /\ TextRejected
    /\ UNCHANGED <<entryPoint, items, allFiles, svgFiles, assetFiles, pending, assetMap,
                   assetMapLower, before, assetFailed, writes, view, objectURLs, el, doc>>

-----------------------------------------------------------------------------
(* App.tsx: navigation and layout controls *)

handlePrev ==
    /\ spreadIndex' = Max(0, spreadIndex - 1)
    /\ UNCHANGED <<pages, hasCover, useSpacer, isLoading, view, objectURLs, ingestVars, obsVars, el, doc>>

handleNext ==
    /\ spreadIndex' = Min(totalSpreads(Len(pages), hasCover, useSpacer) - 1, spreadIndex + 1)
    /\ UNCHANGED <<pages, hasCover, useSpacer, isLoading, view, objectURLs, ingestVars, obsVars, el, doc>>

\* URL.revokeObjectURL for each url of `urls`
Revoked(store, urls) == [u \in (DOMAIN store) \ urls |-> store[u]]

handleReset ==
    /\ ControlsMounted
    /\ objectURLs' = Revoked(objectURLs, {pages[i].url : i \in 1..Len(pages)})
    /\ pages' = <<>>
    /\ spreadIndex' = 0
    /\ UNCHANGED <<hasCover, useSpacer, isLoading, view, ingestVars, obsVars, el, doc>>

toggleCover ==
    /\ ControlsMounted
    /\ hasCover' = ~hasCover
    /\ spreadIndex' = 0
    /\ UNCHANGED <<pages, useSpacer, isLoading, view, objectURLs, ingestVars, obsVars, el, doc>>

toggleSpacer ==
    /\ ControlsMounted
    /\ useSpacer' = ~useSpacer
    /\ UNCHANGED <<pages, spreadIndex, hasCover, isLoading, view, objectURLs, ingestVars, obsVars, el, doc>>

-----------------------------------------------------------------------------
(* The application: ingestion, navigation and layout controls *)

\* no element under rewrite
NoElement == [attr |-> <<>>, source |-> <<>>, processed |-> FALSE,
              css |-> <<>>, cssSource |-> <<>>, quote |-> <<>>, replaced |-> FALSE]

\* no document under transformation
NoDocument == [transformed |-> FALSE]

\* nothing rendered yet
NoView == [rendered |-> FALSE]

IngestIdle ==
    /\ pc = "idle" /\ entryPoint = "none" /\ items = <<>> /\ stack = <<>>
    /\ allFiles = <<>> /\ svgFiles = <<>> /\ assetFiles = <<>> /\ pending = {}
    /\ assetMap = EmptyMap /\ assetMapLower = EmptyMap
    /\ docIdx = 1 /\ processedPages = <<>> /\ returned = <<>>
    /\ alerts = 0 /\ fatal = "none" /\ assetFailed = {} /\ writes = NoWrites
    /\ objectURLs = EmptyMap

Init ==
    /\ pages = <<>> /\ spreadIndex = 0 /\ hasCover = TRUE /\ useSpacer = TRUE
    /\ isLoading = FALSE
    /\ view = NoView
    /\ IngestIdle
    /\ before = [app |-> <<<<>>, 0, TRUE, TRUE, FALSE>>, alerts |-> 0]
    /\ el = NoElement
    /\ doc = NoDocument

Next ==
    \/ \E its \in Drops : handleDrop(its)
    \/ \E list \in FileLists : handleFileInput(list)
    \/ ReadEntriesOk
    \/ ReadEntriesErr
    \/ FileOk
    \/ FileErr
    \/ \E i \in pending : AssetReadOk(i)
    \/ \E i \in pending : AssetReadErr(i)
    \/ TextOk
    \/ TextErr
    \/ handlePrev
    \/ handleNext
    \/ handleReset
    \/ toggleCover
    \/ toggleSpacer

Spec == Init /\ [][Next]_vars

-----------------------------------------------------------------------------
(* The spread layout on its own: BookReader renders a page list at a position *)

\* a page list as processFiles returns it: n pages, indexed 0..n-1
LayoutPages(n) ==
    [i \in 1..n |-> [id |-> i, name |-> Str_page \o <<Digits[i + 1]>> \o Str_svg, index |-> i - 1]]

\* positions up to one past the largest spread count of MaxPages pages
LayoutPositions == 0..(MaxPages \div 2 + 2)

InitLayout ==
    /\ pages \in {LayoutPages(n) : n \in 0..MaxPages}
    /\ spreadIndex \in LayoutPositions
    /\ hasCover \in BOOLEAN
    /\ useSpacer \in BOOLEAN
    /\ isLoading = FALSE
    /\ view = NoView
    /\ IngestIdle
    /\ before = [app |-> <<<<>>, 0, TRUE, TRUE, FALSE>>, alerts |-> 0]
    /\ el = NoElement
    /\ doc = NoDocument

\* BookReader evaluates displayedPages and App evaluates totalSpreads
Render ==
    /\ ~view.rendered
    /\ view' = [rendered |-> TRUE,
                spread |-> displayedPages(pages, spreadIndex, hasCover, useSpacer),
                total |-> totalSpreads(Len(pages), hasCover, useSpacer)]
    /\ UNCHANGED <<appVars, objectURLs, ingestVars, obsVars, el, doc>>

NextLayout == Render

SpecLayout == InitLayout /\ [][NextLayout]_vars

\* a slot that holds a page: neither empty nor a spacer
ShowsRealPage(sp) == sp.left # Null \/ sp.right # Null

\* C1 (as claimed): with T = totalSpreads(N, hasCover, useSpacer), every
\* spreadIndex below T displays at least one real page and spreadIndex = T
\* displays none.
C1_TotalMatchesLayout ==
    view.rendered =>
        /\ (spreadIndex < view.total => ShowsRealPage(view.spread))
        /\ (spreadIndex = view.total => ~ShowsRealPage(view.spread))

\* The slots of a spread as the layout rules name them: a page, a spacer, or empty
Spacer == [spacer |-> TRUE]
Empty  == Null
SlotAt(ps, pos) == IF pos >= 0 /\ pos < Len(ps) THEN ps[pos + 1] ELSE Empty

Shown(sp) ==
    [left |-> IF sp.left # Null THEN sp.left ELSE IF sp.leftIsSpacer THEN Spacer ELSE Empty,
     right |-> sp.right,
     isCoverView |-> sp.isCoverView]

\* the layout rules, position by position
RuleSpread(ps, si, hc, us) ==
    IF hc /\ si = 0
    THEN [left |-> Empty, right |-> SlotAt(ps, 0), isCoverView |-> TRUE]
    ELSE IF hc
    THEN LET c == si - 1 IN
         IF us
         THEN [left |-> IF 2 * c = 0 THEN Spacer ELSE SlotAt(ps, 2 * c),
               right |-> SlotAt(ps, 1 + 2 * c), isCoverView |-> FALSE]
         ELSE [left |-> SlotAt(ps, 1 + 2 * c),
               right |-> SlotAt(ps, 2 + 2 * c), isCoverView |-> FALSE]
    ELSE IF us
         THEN [left |-> IF 2 * si - 1 < 0 THEN Spacer ELSE SlotAt(ps, 2 * si - 1),
               right |-> SlotAt(ps, 2 * si), isCoverView |-> FALSE]
         ELSE [left |-> SlotAt(ps, 2 * si),
               right |-> SlotAt(ps, 2 * si + 1), isCoverView |-> FALSE]

\* C2 (as claimed): for every page count N >= 0 the computed spread equals
\* the layout rules.
C2_LayoutFollowsRulesAnyN ==
    view.rendered => Shown(view.spread) = RuleSpread(pages, spreadIndex, hasCover, useSpacer)

\* C2 (amended): for every page count N >= 1 the computed spread equals the
\* layout rules; for N = 0 both slots are empty, there is no spacer and the
\* spread is not a cover view, whatever the position and the configuration.
C2_LayoutFollowsRules ==
    view.rendered =>
        IF Len(pages) >= 1
        THEN Shown(view.spread) = RuleSpread(pages, spreadIndex, hasCover, useSpacer)
        ELSE Shown(view.spread) = [left |-> Empty, right |-> Empty, isCoverView |-> FALSE]

\* C2 witness: a rendered first content spread behind a cover, spacer on the
\* left and page 1 on the right
C2_Witness ==
    /\ view.rendered /\ hasCover /\ useSpacer /\ spreadIndex = 1 /\ Len(pages) >= 3
    /\ Shown(view.spread).left = Spacer
    /\ view.spread.right = pages[2]

\* the slots of the book from the first spread to the last, in reading order
\* (left before right), and the page each one shows
BookSlots == (0..(view.total - 1)) \X {1, 2}
PageShown(sl) ==
    LET sp == displayedPages(pages, sl[1], hasCover, useSpacer)
    IN IF sl[2] = 1 THEN sp.left ELSE sp.right
ReadBefore(a, b) == a[1] < b[1] \/ (a[1] = b[1] /\ a[2] < b[2])

\* C17: for every N >= 1 and every (hasCover, useSpacer), each page appears
\* in exactly one slot of exactly one spread below totalSpreads, and the
\* pages come in increasing index order from the first spread to the last.
C17_EveryPageShownOnce ==
    (view.rendered /\ Len(pages) >= 1) =>
        /\ \A i \in 1..Len(pages) :
              Cardinality({sl \in BookSlots : PageShown(sl) = pages[i]}) = 1
        /\ \A a, b \in BookSlots :
              (ReadBefore(a, b) /\ PageShown(a) # Null /\ PageShown(b) # Null) =>
                 PageShown(a).index < PageShown(b).index

\* C17 witness: the last spread of a book of four pages or more is rendered
\* and holds the last page
C17_Witness ==
    /\ view.rendered /\ Len(pages) >= 4 /\ spreadIndex = view.total - 1
    /\ \/ view.spread.left = pages[Len(pages)]
       \/ view.spread.right = pages[Len(pages)]

-----------------------------------------------------------------------------
(* Properties of the ingestion *)

RECURSIVE FlattenEntry(_)
RECURSIVE FlattenSeq(_)
\* the files an entry tree contains, children in the order their reader delivers them
FlattenEntry(e) == IF e.isFile THEN <<e.file>> ELSE FlattenSeq(e.children)
FlattenSeq(es)  == IF Len(es) = 0 THEN <<>> ELSE FlattenEntry(Head(es)) \o FlattenSeq(Tail(es))

\* every file the input of the ingestion in flight holds
InputFiles == IF entryPoint = "drop"
              THEN PlainFilesOf(items) \o FlattenSeq(EntriesOf(items))
              ELSE items

Range(f) == {f[x] : x \in DOMAIN f}

\* C3 (as claimed): after a fatal failure, from either entry point, the user
\* got exactly one failure notification and pages, spreadIndex, hasCover,
\* useSpacer and the loading flag are what they were when the ingestion started.
C3_FatalFailureNotifiesOnceAndRestores ==
    pc = "rejected" =>
        /\ alerts = before.alerts + 1
        /\ AppState = before.app

\* C4: the page list of the presentation layer is empty, or it is the complete
\* output of the finished ingestion: one page per document of the batch,
\* in sorted order, indexed 0..N-1.
C4_PublishBarrier ==
    Len(pages) > 0 =>
        /\ pc = "done"
        /\ pages = returned
        /\ Len(pages) = Len(svgFiles)
        /\ {pg.id : pg \in Range(pages)} = {f.id : f \in Range(svgFiles)}
        /\ \A i \in 1..Len(pages) : pages[i].index = i - 1
        /\ \A i \in 1..Len(pages) : \A j \in (i + 1)..Len(pages) :
              localeCompare(pages[i].name, pages[j].name) <= 0

\* C4 witness: documents are transformed, more are to come, and none is exposed
C4_Witness ==
    pc = "docs" /\ Len(processedPages) >= 1 /\ Len(processedPages) < Len(svgFiles)
                /\ Len(pages) = 0

\* C5: a directory listing error, an entry-to-file error or a document read
\* error makes processFiles reject, and no page is published.
C5_FatalErrorYieldsNoPages ==
    fatal # "none" => (pc = "rejected" /\ Len(pages) = 0)

\* C5 witness: the second document's read failed after the first was transformed
C5_Witness ==
    fatal = "docread" /\ pc = "rejected" /\ Len(processedPages) >= 1 /\ Len(pages) = 0

\* the assets of the batch whose read succeeded (valid once the fan-out joined)
AssetsRead == {i \in 1..Len(assetFiles) : i \notin assetFailed}

\* C6 (as claimed): failed asset reads never reject the ingestion; once the
\* fan-out has joined, the name of each failed asset is a key of neither map
\* (exact, lower-cased), the name of each successfully read asset is a key of
\* both; and every document becomes a page.
C6_FailedAssetsAbsentByName ==
    /\ (pc = "rejected" => fatal # "none")
    /\ (pc \in {"docs", "done"} =>
          /\ \A i \in assetFailed :
                /\ ~MapHas(assetMap, assetFiles[i].name)
                /\ ~MapHas(assetMapLower, ToLowerCase(assetFiles[i].name))
          /\ \A i \in 1..Len(assetFiles) : i \notin assetFailed =>
                /\ MapHas(assetMap, assetFiles[i].name)
                /\ MapHas(assetMapLower, ToLowerCase(assetFiles[i].name)))
    /\ (pc = "done" => Len(returned) = Len(svgFiles))

\* C6 (amended): failed asset reads never reject the ingestion; once the
\* fan-out has joined, no registry entry holds a failed asset's data, and a
\* failed asset's name is a key of a map only if a successfully read asset has
\* the same (exact, resp. lower-cased) name; every successfully read asset has
\* its name as a key of both maps, holding the data of a successfully read
\* asset of that name; and every document becomes a page.
C6_AssetFailuresAreLenient ==
    /\ (pc = "rejected" => fatal # "none")
    /\ (pc \in {"docs", "done"} =>
          /\ \A i \in assetFailed :
                /\ DataURL(assetFiles[i]) \notin Range(assetMap) \cup Range(assetMapLower)
                /\ MapHas(assetMap, assetFiles[i].name) =>
                      \E j \in AssetsRead : assetFiles[j].name = assetFiles[i].name
                /\ MapHas(assetMapLower, ToLowerCase(assetFiles[i].name)) =>
                      \E j \in AssetsRead :
                         ToLowerCase(assetFiles[j].name) = ToLowerCase(assetFiles[i].name)
          /\ \A i \in AssetsRead :
                /\ MapHas(assetMap, assetFiles[i].name)
                /\ MapHas(assetMapLower, ToLowerCase(assetFiles[i].name))
                /\ \E j \in AssetsRead :
                      /\ assetFiles[j].name = assetFiles[i].name
                      /\ assetMap[assetFiles[i].name] = DataURL(assetFiles[j])
                /\ \E j \in AssetsRead :
                      /\ ToLowerCase(assetFiles[j].name) = ToLowerCase(assetFiles[i].name)
                      /\ assetMapLower[ToLowerCase(assetFiles[i].name)] = DataURL(assetFiles[j]))
    /\ (pc = "done" => Len(returned) = Len(svgFiles))

\* C6 witness: some asset reads failed, others succeeded, the book is returned,
\* and a failed asset shares its lower-cased name with one that was read
C6_Witness ==
    /\ pc = "done" /\ Len(returned) >= 2
    /\ assetFailed # {} /\ AssetsRead # {}
    /\ \E i \in assetFailed : MapHas(assetMapLower, ToLowerCase(assetFiles[i].name))

\* C7: in every activation of traverseFileTree the listing has consumed every
\* batch before the children are visited, the files gathered so far are the
\* files of the children visited so far, in order; and the traversal of a
\* drop ends with every contained file exactly once, in delivery order.
C7_TraversalCollectsEveryFileOnce ==
    /\ \A d \in 1..Len(stack) :
          LET fr == stack[d] IN
          /\ ~fr.listing => Len(fr.rest) = 0
          /\ fr.files = (IF d = 1 THEN PlainFilesOf(items) ELSE <<>>)
                          \o FlattenSeq(SubSeq(fr.entries, 1, fr.i - 1))
    /\ (entryPoint = "drop" /\ pc \in {"assets", "docs", "done"}) =>
          allFiles = SelectSeq(InputFiles, NotHidden)

\* C7 witness: three folders deep, a listing has delivered part of a folder
C7_Witness ==
    /\ pc = "traverse" /\ Len(stack) >= 4
    /\ Top(stack).listing /\ Len(Top(stack).entries) >= 1 /\ Len(Top(stack).rest) >= 1

\* a document, as the classification rule states it
HasSvgExtension(name) ==
    Len(name) >= 4 /\ ToLowerCase(SubSeq(name, Len(name) - 3, Len(name))) = <<".","s","v","g">>
ClaimedDocument(f) == f.type = "image/svg+xml" \/ HasSvgExtension(f.name)
Visible(f) == Len(f.name) = 0 \/ f.name[1] # "."

\* C8: a finished ingestion returns as many pages as the input holds visible
\* documents; every visible file is either a document or an asset, never both
\* and never neither; every page comes from a document and none from an asset.
C8_PagesAreTheDocuments ==
    (pc \in {"assets", "docs", "done"}) =>
        LET kept == {f \in Range(InputFiles) : Visible(f)} IN
        /\ \A f \in kept : (f \in Range(svgFiles)) # (f \in Range(assetFiles))
        /\ \A f \in kept : (f \in Range(svgFiles)) = ClaimedDocument(f)
        /\ Range(svgFiles) \cup Range(assetFiles) \subseteq kept
        /\ pc = "done" =>
              /\ Len(returned) = Cardinality({f \in kept : ClaimedDocument(f)})
              /\ \A pg \in Range(returned) : \E f \in kept : f.id = pg.id /\ ClaimedDocument(f)
              /\ \A pg \in Range(returned) : \A f \in Range(assetFiles) : f.id # pg.id

\* C8 witness: a book whose pages include one recognised by an upper-case
\* extension alone, next to assets and a hidden document that was dropped
C8_Witness ==
    /\ pc = "done"
    /\ \E pg \in Range(returned) : pg.name = Name_Page3
    /\ Len(assetFiles) >= 2
    /\ F_hidden \in Range(InputFiles)

\* a name as its natural-order key: lower-cased characters, digit runs by value
RECURSIVE NaturalKey(_, _)
NaturalKey(name, i) ==
    IF i > Len(name) THEN <<>>
    ELSE IF IsDigit(name[i])
    THEN <<[num |-> NumVal(name, i, DigitRunEnd(name, i))]>> \o NaturalKey(name, DigitRunEnd(name, i) + 1)
    ELSE <<[ch |-> ToLowerChar(name[i])]>> \o NaturalKey(name, i + 1)

IsNum(t) == "num" \in DOMAIN t
IsLetter(t) == "ch" \in DOMAIN t /\ IndexIn(t.ch, LowerCase) > 0

\* a is out of natural order before b: at the first difference of their keys
\* a has the larger number, or the later letter
NaturallyAfter(a, b) ==
    LET ka == NaturalKey(a, 1)
        kb == NaturalKey(b, 1)
    IN \E n \in 1..Min(Len(ka), Len(kb)) :
          /\ \A m \in 1..(n - 1) : ka[m] = kb[m]
          /\ \/ IsNum(ka[n]) /\ IsNum(kb[n]) /\ ka[n].num > kb[n].num
             \/ IsLetter(ka[n]) /\ IsLetter(kb[n])
                  /\ IndexIn(ka[n].ch, LowerCase) > IndexIn(kb[n].ch, LowerCase)

\* C9: the returned pages are in natural name order (numbers by value,
\* letters without regard to case) and the page at position i has index i.
C9_SortedAndIndexed ==
    pc = "done" =>
        /\ \A i \in 1..Len(returned) : returned[i].index = i - 1
        /\ \A i \in 1..Len(returned) : \A j \in (i + 1)..Len(returned) :
              ~NaturallyAfter(returned[i].name, returned[j].name)

\* C9 witness: page10.svg, page2.svg, page1.svg arrive in that order and are
\* shown as page1.svg, page2.svg, page10.svg with indices 0, 1, 2
C9_Witness ==
    /\ pc = "done"
    /\ [i \in 1..Len(svgFiles) |-> svgFiles[i].name] = <<Name_page10, Name_page2, Name_page1>>
    /\ [i \in 1..Len(returned) |-> <<returned[i].id, returned[i].name, returned[i].index>>]
          = <<<<1, Name_page1, 0>>, <<2, Name_page2, 1>>, <<3, Name_page10, 2>>>>

\* every attribute of a tree, with the tag that carries it; every text of a
\* tree; the tags of a tree in document order
RECURSIVE AttrsIn(_)
AttrsIn(n) ==
    IF IsText(n) THEN {}
    ELSE {<<n.tag, a, n.attrs[a]>> : a \in DOMAIN n.attrs}
            \cup UNION {AttrsIn(n.kids[i]) : i \in 1..Len(n.kids)}
RECURSIVE TextsIn(_)
TextsIn(n) ==
    IF IsText(n) THEN {n.text} ELSE UNION {TextsIn(n.kids[i]) : i \in 1..Len(n.kids)}
RECURSIVE TagsIn(_)
RECURSIVE TagsAmong(_)
TagsIn(n) == IF IsText(n) THEN <<>> ELSE <<n.tag>> \o TagsAmong(n.kids)
TagsAmong(ks) == IF Len(ks) = 0 THEN <<>> ELSE TagsIn(Head(ks)) \o TagsAmong(Tail(ks))

ContainsUrl(str) == \E i \in 1..Len(str) : StartsWith(SubSeq(str, i, Len(str)), Str_url)

\* the references the documents name a registered asset by
NamedReferences == {v \in {Name_logo, Name_Logo, Ref_imgLogo} :
                       getFilenameFromPath(v) \in DOMAIN assetMap}
AssetNamedBy(v) == assetMap[getFilenameFromPath(v)]

\* the document at position k of the loop has its page and its blob
Emitted(k) ==
    /\ k <= Len(processedPages)
    /\ processedPages[k].id = svgFiles[k].id
    /\ processedPages[k].url \in DOMAIN objectURLs

\* the blob of document k spells the original text, but for the url(...)
\* occurrences that name a registered asset
KeptButForUrls(k) ==
    LET src == Content(svgFiles[k]).root
        out == objectURLs[processedPages[k].url]
    IN /\ TagsIn(out) = TagsIn(src)
       /\ \A t \in AttrsIn(src) : ~ContainsUrl(t[3]) => t \in AttrsIn(out)
       /\ \A x \in TextsIn(src) : ~ContainsUrl(x) => x \in TextsIn(out)
       /\ \A q \in Quotes, v \in NamedReferences :
             /\ StyleOf(q, v) \in TextsIn(src) => StyleOf(q, AssetNamedBy(v)) \in TextsIn(out)
             /\ \A t \in AttrsIn(src) : t[3] = StyleOf(q, v) =>
                   <<t[1], t[2], StyleOf(q, AssetNamedBy(v))>> \in AttrsIn(out)

\* the blob of document k has its references rewritten and, where an element
\* is tagged for redaction, a definitions container
ProcessedAsUsual(k) ==
    LET src == Content(svgFiles[k]).root
        out == objectURLs[processedPages[k].url]
    IN /\ \A t \in AttrsIn(src) :
             (t[2] \in {"href", "src", "xlink:href"} /\ t[3] \in NamedReferences) =>
                <<t[1], t[2], AssetNamedBy(t[3])>> \in AttrsIn(out)
       /\ (\E t \in AttrsIn(src) : t[2] = "data-tags" /\ StartsWith(t[3], Str_redact)) =>
             (\E i \in 1..Len(TagsIn(out)) : TagsIn(out)[i] = Tag_defs)

\* C13: a document whose structured parse fails or reports an error node does
\* not abort the batch: it becomes exactly one page, whose text is the original
\* one (no attribute rewritten, nothing redacted) with the url(...) pass
\* applied, and the other documents of the batch are processed as usual.
C13_ParseFailureDegrades ==
    /\ (pc = "rejected" => fatal # "none")
    /\ (pc = "docs" \/ (pc = "done" /\ Len(pages) > 0)) =>
          \A k \in 1..(docIdx - 1) :
             /\ Emitted(k)
             /\ IF Content(svgFiles[k]).parse = "ok"
                THEN ProcessedAsUsual(k)
                ELSE KeptButForUrls(k)
    /\ pc = "done" =>
          \A k \in 1..Len(svgFiles) :
             Cardinality({i \in 1..Len(returned) : returned[i].id = svgFiles[k].id}) = 1

\* C13 witness: the book is returned; page2.svg did not parse, its image still
\* refers to logo.png and its stylesheet holds the asset's data; page1.svg,
\* read after it, has its definitions container
C13_Witness ==
    /\ pc = "done" /\ Len(pages) = 3
    /\ BlobURL(F_page2) \in DOMAIN objectURLs /\ BlobURL(F_page1) \in DOMAIN objectURLs
    /\ <<Tag_image, "href", Name_logo>> \in AttrsIn(objectURLs[BlobURL(F_page2)])
    /\ StyleOf(<<"'">>, DataURL(F_logo)) \in TextsIn(objectURLs[BlobURL(F_page2)])
    /\ Text_HiYou \in TextsIn(objectURLs[BlobURL(F_page2)])
    /\ objectURLs[BlobURL(F_page1)].kids[1].tag = Tag_defs

\* the assets whose read has succeeded so far
AssetsSet == {i \in 1..Len(assetFiles) : i \notin pending /\ i \notin assetFailed}

\* from the start of the document loop on, nothing is set in the registry
RegistryFrozen ==
    pc = "docs" => (assetMap' = assetMap /\ assetMapLower' = assetMapLower /\ writes' = writes)

\* C15 (as claimed): during the concurrent asset encode each key of the
\* exact-case map and each key of the lowercase map is written at most once,
\* and no registry write happens after the first document transformation has
\* started (no read that could write is outstanding then).
C15_WriteOncePerKey ==
    /\ \A k \in DOMAIN writes.exact : writes.exact[k] <= 1
    /\ \A k \in DOMAIN writes.lower : writes.lower[k] <= 1
    /\ (pc = "docs" => pending = {})

\* C15 (amended): during the concurrent asset encode each successfully read
\* asset writes each map exactly once, under its name and its lower-cased
\* name: a key is written once per successfully read asset that has it, more
\* than once exactly when several such assets share it; and no registry write
\* happens after the first document transformation has started.
C15_WriteOncePerAsset ==
    /\ [](/\ pc \in {"assets", "docs", "done"} =>
                /\ DOMAIN writes.exact = {assetFiles[i].name : i \in AssetsSet}
                /\ DOMAIN writes.lower = {ToLowerCase(assetFiles[i].name) : i \in AssetsSet}
                /\ \A k \in DOMAIN writes.exact :
                      writes.exact[k] = Cardinality({i \in AssetsSet : assetFiles[i].name = k})
                /\ \A k \in DOMAIN writes.lower :
                      writes.lower[k] =
                         Cardinality({i \in AssetsSet : ToLowerCase(assetFiles[i].name) = k})
          /\ DOMAIN assetMap = DOMAIN writes.exact
          /\ DOMAIN assetMapLower = DOMAIN writes.lower
          /\ (pc = "docs" => pending = {}))
    /\ [][RegistryFrozen]_vars

\* C15 witness: logo.png and Logo.PNG were both read, the lowercase key they
\* share was written twice, and the document loop is under way
C15_Witness ==
    /\ pc = "docs" /\ Len(processedPages) >= 1
    /\ ToLowerCase(Name_Logo) \in DOMAIN writes.lower
    /\ writes.lower[ToLowerCase(Name_Logo)] = 2
    /\ writes.exact[Name_Logo] = 1

\* C16 (as claimed): after any sequence of load, next, previous,
\* toggle-cover, toggle-spacer, reset and keyboard actions,
\* 0 <= spreadIndex <= max(0, totalSpreads - 1) for the current page count,
\* hasCover and useSpacer; the viewer is never on a spread that shows no page,
\* and spreadIndex is never negative while no pages are loaded.
C16_SpreadIndexInRange ==
    /\ spreadIndex >= 0
    /\ spreadIndex <= Max(0, totalSpreads(Len(pages), hasCover, useSpacer) - 1)
    /\ Len(pages) > 0 => ShowsRealPage(displayedPages(pages, spreadIndex, hasCover, useSpacer))

\* the object URLs the ingestion call that settled last has created
CreatedByCall ==
    IF fatal \in {"listing", "entry"} THEN {}
    ELSE {processedPages[k].url : k \in 1..Len(processedPages)}

\* C18 (as claimed): once an ingestion call has settled, every object URL it
\* created is the url of a page of the current page list or has been revoked.
C18_NoObjectURLLeaks ==
    pc \in {"done", "rejected"} =>
        \A u \in CreatedByCall :
           \/ \E i \in 1..Len(pages) : pages[i].url = u
           \/ u \notin DOMAIN objectURLs

-----------------------------------------------------------------------------
(* Reference resolution on its own: one attribute against one registry *)

Name_a_b   == <<"a"," ","b">>               \* "a b"
Name_a20b  == <<"a","%","2","0","b">>       \* "a%20b", a literal percent sign
Name_A_b   == <<"A"," ","b">>               \* "A b"
F_a_b  == File(12, Name_a_b, "image/png")
F_a20b == File(13, Name_a20b, "image/png")
F_A_b  == File(14, Name_A_b, "image/png")

LookupAssets == {F_logo, F_Logo, F_a_b, F_a20b, F_A_b}

\* the orders in which up to MaxAssets asset reads can complete
RECURSIVE Orders(_)
Orders(n) ==
    IF n = 0 THEN {<<>>}
    ELSE LET shorter == Orders(n - 1) IN
         shorter \cup {Append(o, f) : o \in {x \in shorter : Len(x) = n - 1},
                                       f \in LookupAssets}

AssetOrders == {o \in Orders(MaxAssets) : \A i, j \in 1..Len(o) : i # j => o[i] # o[j]}

\* the two maps after lines 157-159 ran for each asset of `o`, in that order
RECURSIVE Registered(_, _)
Registered(o, lowered) ==
    IF Len(o) = 0 THEN EmptyMap
    ELSE LET f == o[Len(o)]
             k == IF lowered THEN ToLowerCase(f.name) ELSE f.name
         IN MapSet(Registered(SubSeq(o, 1, Len(o) - 1), lowered), k, DataURL(f))

\* attribute values as authored
RefValues ==
    {Name_logo, Name_Logo, Name_a_b, Name_a20b,
     <<"A","%","2","0","b">>,                              \* A%20b
     <<"a","%","2","5","2","0","b">>,                      \* a%2520b
     <<"A","%","2","5","2","0","b">>,                      \* A%2520b
     <<"i","m","g","/">> \o Name_Logo \o <<"?","v","#","x">>,  \* img/Logo.PNG?v#x
     <<"d","\\">> \o Name_logo,                            \* d\logo.png
     <<"l","o","g","o","%","2","E","p","n","g">>,          \* logo%2Epng
     <<"x","%","2","5">>,                                   \* x%25
     <<"x","%">>,                                           \* x% (malformed)
     Str_http \o <<"h","/">> \o Name_logo,                 \* http://h/logo.png
     Str_https \o <<"h","/">> \o Name_logo,                \* https://h/logo.png
     Str_data \o <<"8">>,                                   \* data:8
     <<"i","m","g","/">>,                                   \* img/
     <<>>}

InitLookup ==
    /\ pages = <<>> /\ spreadIndex = 0 /\ hasCover = TRUE /\ useSpacer = TRUE
    /\ isLoading = FALSE
    /\ view = NoView
    /\ pc = "idle" /\ entryPoint = "none" /\ items = <<>> /\ stack = <<>>
    /\ allFiles = <<>> /\ svgFiles = <<>> /\ pending = {}
    /\ \E o \in AssetOrders :
          /\ assetFiles = o
          /\ assetMap = Registered(o, FALSE)
          /\ assetMapLower = Registered(o, TRUE)
    /\ docIdx = 1 /\ processedPages = <<>> /\ returned = <<>>
    /\ alerts = 0 /\ fatal = "none" /\ assetFailed = {} /\ writes = NoWrites
    /\ objectURLs = EmptyMap
    /\ doc = NoDocument
    /\ before = [app |-> <<<<>>, 0, TRUE, TRUE, FALSE>>, alerts |-> 0]
    /\ \E v \in RefValues, q \in Quotes :
          el = [attr |-> v, source |-> v, processed |-> FALSE,
                css |-> StyleOf(q, v), cssSource |-> StyleOf(q, v), quote |-> q,
                replaced |-> FALSE]

\* processAttribute runs on the element's attribute
ProcessAttribute ==
    /\ ~el.processed
    /\ el' = [el EXCEPT !.attr = processAttribute(assetMap, assetMapLower, el.attr),
                        !.processed = TRUE]
    /\ UNCHANGED <<appVars, view, objectURLs, ingestVars, obsVars, doc>>

\* the secondary pass runs over the text that holds the element's style
UrlPass ==
    /\ ~el.replaced
    /\ el' = [el EXCEPT !.css = ReplaceUrls(assetMap, assetMapLower, el.css),
                        !.replaced = TRUE]
    /\ UNCHANGED <<appVars, view, objectURLs, ingestVars, obsVars, doc>>

NextLookup == ProcessAttribute \/ UrlPass

SpecLookup == InitLookup /\ [][NextLookup]_vars

\* the four lookups of a file name, in the order they are to be tried: the
\* map and the key of each
Strategies(filename) ==
    LET d == decodeURIComponent(filename) IN
    <<[map |-> assetMap, key |-> filename],
      [map |-> assetMapLower, key |-> ToLowerCase(filename)]>>
    \o (IF d.ok THEN <<[map |-> assetMap, key |-> d.val],
                       [map |-> assetMapLower, key |-> ToLowerCase(d.val)]>>
        ELSE <<>>)

Hits(filename) == {n \in 1..Len(Strategies(filename)) :
                      Strategies(filename)[n].key \in DOMAIN Strategies(filename)[n].map}

\* C10: a reference that names a file is rewritten to the value of the first
\* of the four lookups (exact, lower-cased, decoded exact, decoded lower-cased)
\* that hits, whatever a later lookup would give; a reference that differs
\* from a registered name only by case resolves to an asset of that name; a
\* reference that hits nothing keeps its value.
C10_FirstHitDecides ==
    (el.processed /\ Truthy(getFilenameFromPath(el.source))) =>
        LET f  == getFilenameFromPath(el.source)
            st == Strategies(f)
        IN /\ Hits(f) # {} =>
                 LET first == CHOOSE n \in Hits(f) : \A m \in Hits(f) : n <= m
                 IN el.attr = st[first].map[st[first].key]
           /\ Hits(f) = {} => el.attr = el.source
           /\ (\E a \in Range(assetFiles) : ToLowerCase(a.name) = ToLowerCase(f)) =>
                 \E a \in Range(assetFiles) :
                    ToLowerCase(a.name) = ToLowerCase(f) /\ el.attr = DataURL(a)

\* C10 witness: Logo.PNG is registered and names itself by the exact-case
\* lookup, while the lower-case lookup of the same reference gives logo.png
C10_Witness ==
    /\ el.processed /\ el.source = Name_Logo
    /\ el.attr = DataURL(F_Logo)
    /\ MapGet(assetMapLower, ToLowerCase(Name_Logo)) = DataURL(F_logo)

\* the declaration that refers to v inside the quotes the author used
Declares(v) == StyleOf(el.quote, v)

\* C11 (as claimed): for every registry and every reference value, the
\* stylesheet pass and the attribute pass pick the same asset, or both leave
\* the reference as it was.
C11_UrlPassAgreesWithAttributePass ==
    (el.processed /\ el.replaced) =>
        \/ el.attr = el.source /\ el.css = el.cssSource
        \/ el.attr # el.source /\ el.css = Declares(el.attr)

-----------------------------------------------------------------------------
(* One document on its own: the loop body against a fixed registry *)

\* an attribute that may be absent
Absent == [present |-> FALSE]
Present(v) == [present |-> TRUE, value |-> v]

\* the attributes among `given` that are present, by name
AttrsOf(given) == [a \in {x \in DOMAIN given : given[x].present} |-> given[a].value]

ViewBoxValues ==
    {Absent,
     Present(<<>>),
     Present(ViewBox_100x200),
     Present(<<"0",",","0",",","1","0","0",",","2","0","0">>),              \* 0,0,100,200
     Present(<<" ","0"," ","0"," ",","," ","1","0","0","\t","2","0","0"," ">>),
     Present(<<"0"," ","0"," ","-","5"," ","1","0">>),                      \* 0 0 -5 10
     Present(<<"0"," ","0"," ","1","0","0"," ","-","7">>),                  \* 0 0 100 -7
     Present(<<"0"," ","0"," ","1","0","0"," ","0">>),                      \* 0 0 100 0
     Present(<<"0"," ","0"," ","0"," ","2","0","0">>),                      \* 0 0 0 200
     Present(<<"0"," ","0"," ","1","0","0">>),                              \* 0 0 100
     Present(<<"0"," ","0"," ","a"," ","b">>)}                              \* 0 0 a b

WidthValues ==
    {Absent, Present(<<"3","0","0">>), Present(<<"0">>), Present(<<"-","3">>),
     Present(<<"a","u","t","o">>), Present(<<"5","0","p","x">>)}

HeightValues ==
    {Absent, Present(<<"4","0","0">>), Present(<<"0">>), Present(<<"-","4">>),
     Present(<<"5","0","%">>)}

DimensionDocuments ==
    {Document("ok", Element(Tag_svg,
                            AttrsOf(("viewBox" :> vb) @@ ("width" :> w) @@ ("height" :> h)),
                            <<>>)) :
        vb \in ViewBoxValues, w \in WidthValues, h \in HeightValues}

\* values of the classification attribute
TagValues ==
    {Absent,
     Present(<<>>),
     Present(Str_redact),
     Present(Str_redactA),
     Present(<<" ","R","e","d","a","c","t"," ",",","x">>),                  \* " Redact ,x"
     Present(<<"x",","," ","R","E","D","A","C","T","E","D">>),              \* "x, REDACTED"
     Present(<<"x">>),
     Present(<<"u","n","r","e","d","a","c","t">>)}                          \* unredact

Text_spaced == <<"a"," "," ","b","\n","\t","c"," ">>

\* what the classified group may hold
Bodies ==
    {<<>>,
     <<Element(Tag_image, "href" :> Name_logo, <<>>),
       Element(Tag_text, EmptyMap, <<Text(Text_HiYou)>>)>>,
     <<Element(Tag_g, "data-tags" :> Str_redact,
               <<Element(Tag_image, "style" :> <<"o",":","1">>, <<>>)>>),
       Text(Text_spaced)>>,
     <<Element(Tag_image, "data-tags" :> Str_redact, <<Element(Tag_image, EmptyMap, <<>>)>>),
       Element(Tag_text, EmptyMap, <<Text(<<"x">>), Element(Tag_g, EmptyMap, <<Text(Text_spaced)>>)>>)>>}

\* where the document already has a definitions container, if it has one
DefsPlacements == {"none", "first", "afterText", "second", "nested"}

ExistingDefs == Element(Tag_defs, EmptyMap, <<Element(Tag_style, EmptyMap, <<Text(<<"s">>)>>)>>)

Placed(placement, group) ==
    IF placement = "none" THEN <<group>>
    ELSE IF placement = "first" THEN <<ExistingDefs, group>>
    ELSE IF placement = "afterText" THEN <<Text(<<"\n">>), ExistingDefs, group>>
    ELSE IF placement = "second" THEN <<group, ExistingDefs>>
    ELSE <<Element(Tag_g, EmptyMap, <<ExistingDefs>>), group>>

RedactionDocuments ==
    {Document("ok", Element(Tag_svg, "viewBox" :> ViewBox_100x200,
                            Placed(pl, Element(Tag_g, AttrsOf("data-tags" :> tv), body)))) :
        tv \in TagValues, body \in Bodies, pl \in DefsPlacements}

Documents == DimensionDocuments \cup RedactionDocuments
                \cup {Doc_page1, Doc_page2, Doc_page10, Doc_Page3, Doc_cover, Doc_plain}

InitDocument ==
    /\ pages = <<>> /\ spreadIndex = 0 /\ hasCover = TRUE /\ useSpacer = TRUE
    /\ isLoading = FALSE
    /\ view = NoView
    /\ pc = "idle" /\ entryPoint = "none" /\ items = <<>> /\ stack = <<>>
    /\ allFiles = <<>> /\ svgFiles = <<>> /\ pending = {}
    /\ assetFiles = <<F_logo, F_Logo>>
    /\ assetMap = Registered(assetFiles, FALSE)
    /\ assetMapLower = Registered(assetFiles, TRUE)
    /\ docIdx = 1 /\ processedPages = <<>> /\ returned = <<>>
    /\ alerts = 0 /\ fatal = "none" /\ assetFailed = {} /\ writes = NoWrites
    /\ objectURLs = EmptyMap
    /\ before = [app |-> <<<<>>, 0, TRUE, TRUE, FALSE>>, alerts |-> 0]
    /\ el = NoElement
    /\ \E d \in Documents, rnd \in RandomSuffixes :
          doc = [transformed |-> FALSE, source |-> d, rnd |-> rnd]

\* the loop body runs on the document
Transform ==
    /\ ~doc.transformed
    /\ doc' = [transformed |-> TRUE, source |-> doc.source, rnd |-> doc.rnd,
               out |-> transformDocument(doc.source, assetMap, assetMapLower, doc.rnd)]
    /\ UNCHANGED <<appVars, view, objectURLs, ingestVars, obsVars, el>>

NextDocument == Transform

SpecDocument == InitDocument /\ [][NextDocument]_vars

\* the numbers a viewBox gives, when it is made of four numbers
ViewBoxNumbers(root) ==
    LET tokens == SplitViewBox(getAttribute(root, "viewBox"), <<>>)
    IN IF Len(tokens) = 4 /\ \A i \in 1..4 : IsIntegerLiteral(tokens[i])
       THEN [i \in 1..4 |-> IntegerValue(tokens[i])]
       ELSE <<>>

\* an attribute that starts with a number, and that number
IsNumeric(v) == ~parseFloat(v).nan
NumericValue(v) == parseFloat(v).val

\* the pair of dimensions the first source that resolves gives
ResolvedDimensions(root) ==
    LET vb == ViewBoxNumbers(root)
        w  == getAttribute(root, "width")
        h  == getAttribute(root, "height")
    IN IF Len(vb) = 4 /\ vb[3] > 0 /\ vb[4] > 0
       THEN [width |-> vb[3], height |-> vb[4]]
       ELSE IF IsNumeric(w) /\ IsNumeric(h) /\ NumericValue(w) > 0 /\ NumericValue(h) > 0
       THEN [width |-> NumericValue(w), height |-> NumericValue(h)]
       ELSE [width |-> 595, height |-> 842]

\* C12 (as claimed): every emitted page has width > 0 and height > 0, taken as
\* a pair from the first source that resolves: the viewBox when it has four
\* numbers with positive width and height, otherwise the root's numeric width
\* and height attributes, otherwise 595 by 842.
C12_DimensionsFromFirstResolvingSource ==
    (doc.transformed /\ doc.source.parse = "ok") =>
        /\ doc.out.dim.width > 0
        /\ doc.out.dim.height > 0
        /\ doc.out.dim = ResolvedDimensions(doc.source.root)

\* an element whose classification attribute holds a value that starts with
\* the redaction marker
Classified(n) ==
    /\ ~IsText(n)
    /\ "data-tags" \in DOMAIN n.attrs
    /\ StartsWith(n.attrs["data-tags"], Str_redact)

\* the nodes of a tree in document order, each with whether it descends from
\* a classified element (`under`), and from one that is not an image (`lists`)
RECURSIVE Walk(_, _, _)
RECURSIVE WalkAmong(_, _, _)
Walk(n, under, lists) ==
    <<[node |-> n, under |-> under, lists |-> lists]>>
    \o (IF IsText(n) THEN <<>>
        ELSE WalkAmong(n.kids, under \/ Classified(n),
                       lists \/ (Classified(n) /\ n.tag # Tag_image)))
WalkAmong(ks, under, lists) ==
    IF Len(ks) = 0 THEN <<>>
    ELSE Walk(Head(ks), under, lists) \o WalkAmong(Tail(ks), under, lists)

NodesOf(root) == Walk(root, FALSE, FALSE)
ElementsOf(root) == SelectSeq(NodesOf(root), LAMBDA x : ~IsText(x.node))
TextNodesOf(root) == SelectSeq(NodesOf(root), LAMBDA x : IsText(x.node))
ImagesOf(root) == SelectSeq(ElementsOf(root), LAMBDA x : x.node.tag = Tag_image)
DefsOf(root) == SelectSeq(ElementsOf(root), LAMBDA x : x.node.tag = Tag_defs)

IsBlurFilter(n) ==
    /\ ~IsText(n) /\ n.tag = Tag_filter
    /\ StartsWith(getAttribute(n, "id"), Str_filterPrefix)
BlurFiltersOf(root) == SelectSeq(ElementsOf(root), LAMBDA x : IsBlurFilter(x.node))

ElementChildren(n) == SelectSeq(n.kids, LAMBDA k : ~IsText(k))

\* the text is the original with every character that is not white space
\* replaced by the glyph, white space where it was
IsRedactionOf(now, was) ==
    /\ Len(now) = Len(was)
    /\ \A j \in 1..Len(was) :
          IF was[j] \in {" ", "\t", "\n"} THEN now[j] = was[j] ELSE now[j] = Glyph

\* the case of C14: a successfully parsed document with a classified element
HasClassified(d) ==
    d.parse = "ok" /\ \E i \in 1..Len(ElementsOf(d.root)) : Classified(ElementsOf(d.root)[i].node)

ReferenceTo(filter) == Str_url \o <<"#">> \o getAttribute(filter, "id") \o <<")">>

\* every text node below a classified element is redacted
TextsRedacted ==
    LET was == TextNodesOf(doc.source.root)
        now == TextNodesOf(doc.out.content)
    IN /\ Len(now) = Len(was)
       /\ \A i \in 1..Len(was) : was[i].under => IsRedactionOf(now[i].node.text, was[i].node.text)

\* C14 (as claimed): in a successfully parsed document with a classified
\* element, a definitions container is the first child of the root and holds
\* the one blur filter; every image that is classified or descends from a
\* classified element refers to that filter; every text node below a
\* classified element is redacted.
C14_RedactionFirstChildDefs ==
    (doc.transformed /\ HasClassified(doc.source)) =>
        LET out     == doc.out.content
            filters == BlurFiltersOf(out)
            first   == ElementChildren(out)
        IN /\ Len(filters) = 1
           /\ Len(first) >= 1 /\ first[1].tag = Tag_defs
           /\ \E k \in 1..Len(first[1].kids) : first[1].kids[k] = filters[1].node
           /\ \A i \in 1..Len(ImagesOf(out)) :
                 LET img == ImagesOf(out)[i] IN
                 (img.under \/ Classified(img.node)) =>
                    getAttribute(img.node, "filter") = ReferenceTo(filters[1].node)
           /\ TextsRedacted

\* C14 (amended): in a successfully parsed document with a classified
\* element, the document's first definitions container in document order
\* holds the one blur filter as its last child, and that container is the
\* first child of the root when the document had none; every image that is
\* classified, or descends from a classified element that is not itself an
\* image, refers to that filter; every text node below a classified element
\* is redacted.
C14_Redaction ==
    (doc.transformed /\ HasClassified(doc.source)) =>
        LET out     == doc.out.content
            filters == BlurFiltersOf(out)
            defs    == DefsOf(out)
        IN /\ Len(filters) = 1
           /\ Len(defs) >= 1
           /\ Len(defs[1].node.kids) >= 1
           /\ defs[1].node.kids[Len(defs[1].node.kids)] = filters[1].node
           /\ Len(DefsOf(doc.source.root)) = 0 => out.kids[1] = defs[1].node
           /\ Len(DefsOf(out)) = Max(1, Len(DefsOf(doc.source.root)))
           /\ \A i \in 1..Len(ImagesOf(out)) :
                 LET img == ImagesOf(out)[i] IN
                 (img.lists \/ Classified(img.node)) =>
                    getAttribute(img.node, "filter") = ReferenceTo(filters[1].node)
           /\ TextsRedacted

\* C14 witness: the document has its definitions container after the
\* classified group; the filter went into it, the group's image refers to the
\* filter and the group's text reads as two blocks, a space and three blocks
C14_Witness ==
    /\ doc.transformed /\ HasClassified(doc.source)
    /\ Len(DefsOf(doc.source.root)) = 1
    /\ ElementChildren(doc.out.content)[1].tag = Tag_g
    /\ Len(BlurFiltersOf(doc.out.content)) = 1
    /\ \E i \in 1..Len(ImagesOf(doc.out.content)) :
          /\ ImagesOf(doc.out.content)[i].under
          /\ getAttribute(ImagesOf(doc.out.content)[i].node, "filter")
                = Str_url \o <<"#">> \o Str_filterPrefix \o doc.rnd \o <<")">>
    /\ \E i \in 1..Len(TextNodesOf(doc.out.content)) :
          TextNodesOf(doc.out.content)[i].node.text = <<Glyph, Glyph, " ", Glyph, Glyph, Glyph>>

====
